---- MODULE Spec2Model ----
EXTENDS Integers, Sequences, FiniteSets, TLC

\* Verification model of the ZOON catalogue scraper (src/src/main.py):
\* ParserConfig, ZoonScraper.run and the page pipeline it drives, main().
\* Text is a sequence of characters. A printable ASCII character is written
\* as itself, tab and line feed as "\t" and "\n", any other character (and the
\* grave accent) as "U+" and its code point in hexadecimal; MIDDOT and EMDASH
\* are U+00B7 and U+2014.

\* ------------------------------------------------------------------ bounds
\* ParserConfig.total_pages, protect_poll_attempts and
\* protect_manual_retry_attempts are configuration fields; the model runs
\* them at small values.
TotalPages == 3
ProtectPollAttempts == 2
ProtectManualRetryAttempts == 2
\* Largest number of cards one catalogue page shows.
MaxCards == 2
\* Number of listings the catalogue holds over all its pages.
MaxCatalogue == 3
\* Number of pages of one run on which the site serves a challenge screen.
MaxChallenged == 1
MaxBaseLen == 3
MaxUrlPage == 11
\* Number of catalogue pages drawn for the comparison of the two scripts.
MaxScript == 2
\* Largest number of feature links on a card, and of extractions from it.
MaxLinks == 4
MaxExtractions == 2

\* ------------------------------------------------------ character tables
\* str.strip() without an argument removes the characters str.isspace()
\* holds of.
Whitespace ==
    {"\t", "\n", "U+000B", "U+000C", "U+000D", "U+001C", "U+001D", "U+001E",
      "U+001F", " ", "U+0085", "U+00A0", "U+1680", "U+2000", "U+2001",
      "U+2002", "U+2003", "U+2004", "U+2005", "U+2006", "U+2007", "U+2008",
      "U+2009", "U+200A", "U+2028", "U+2029", "U+202F", "U+205F", "U+3000" }

\* The characters \d matches in a str pattern, the Unicode decimal digits:
\* one row per script, the digits zero to nine in order.
DigitRows ==
    << <<"0", "1", "2", "3", "4", "5", "6", "7", "8", "9">>,
       <<"U+0660", "U+0661", "U+0662", "U+0663", "U+0664", "U+0665", "U+0666", "U+0667", "U+0668", "U+0669">>,
       <<"U+06F0", "U+06F1", "U+06F2", "U+06F3", "U+06F4", "U+06F5", "U+06F6", "U+06F7", "U+06F8", "U+06F9">>,
       <<"U+07C0", "U+07C1", "U+07C2", "U+07C3", "U+07C4", "U+07C5", "U+07C6", "U+07C7", "U+07C8", "U+07C9">>,
       <<"U+0966", "U+0967", "U+0968", "U+0969", "U+096A", "U+096B", "U+096C", "U+096D", "U+096E", "U+096F">>,
       <<"U+09E6", "U+09E7", "U+09E8", "U+09E9", "U+09EA", "U+09EB", "U+09EC", "U+09ED", "U+09EE", "U+09EF">>,
       <<"U+0A66", "U+0A67", "U+0A68", "U+0A69", "U+0A6A", "U+0A6B", "U+0A6C", "U+0A6D", "U+0A6E", "U+0A6F">>,
       <<"U+0AE6", "U+0AE7", "U+0AE8", "U+0AE9", "U+0AEA", "U+0AEB", "U+0AEC", "U+0AED", "U+0AEE", "U+0AEF">>,
       <<"U+0B66", "U+0B67", "U+0B68", "U+0B69", "U+0B6A", "U+0B6B", "U+0B6C", "U+0B6D", "U+0B6E", "U+0B6F">>,
       <<"U+0BE6", "U+0BE7", "U+0BE8", "U+0BE9", "U+0BEA", "U+0BEB", "U+0BEC", "U+0BED", "U+0BEE", "U+0BEF">>,
       <<"U+0C66", "U+0C67", "U+0C68", "U+0C69", "U+0C6A", "U+0C6B", "U+0C6C", "U+0C6D", "U+0C6E", "U+0C6F">>,
       <<"U+0CE6", "U+0CE7", "U+0CE8", "U+0CE9", "U+0CEA", "U+0CEB", "U+0CEC", "U+0CED", "U+0CEE", "U+0CEF">>,
       <<"U+0D66", "U+0D67", "U+0D68", "U+0D69", "U+0D6A", "U+0D6B", "U+0D6C", "U+0D6D", "U+0D6E", "U+0D6F">>,
       <<"U+0DE6", "U+0DE7", "U+0DE8", "U+0DE9", "U+0DEA", "U+0DEB", "U+0DEC", "U+0DED", "U+0DEE", "U+0DEF">>,
       <<"U+0E50", "U+0E51", "U+0E52", "U+0E53", "U+0E54", "U+0E55", "U+0E56", "U+0E57", "U+0E58", "U+0E59">>,
       <<"U+0ED0", "U+0ED1", "U+0ED2", "U+0ED3", "U+0ED4", "U+0ED5", "U+0ED6", "U+0ED7", "U+0ED8", "U+0ED9">>,
       <<"U+0F20", "U+0F21", "U+0F22", "U+0F23", "U+0F24", "U+0F25", "U+0F26", "U+0F27", "U+0F28", "U+0F29">>,
       <<"U+1040", "U+1041", "U+1042", "U+1043", "U+1044", "U+1045", "U+1046", "U+1047", "U+1048", "U+1049">>,
       <<"U+1090", "U+1091", "U+1092", "U+1093", "U+1094", "U+1095", "U+1096", "U+1097", "U+1098", "U+1099">>,
       <<"U+17E0", "U+17E1", "U+17E2", "U+17E3", "U+17E4", "U+17E5", "U+17E6", "U+17E7", "U+17E8", "U+17E9">>,
       <<"U+1810", "U+1811", "U+1812", "U+1813", "U+1814", "U+1815", "U+1816", "U+1817", "U+1818", "U+1819">>,
       <<"U+1946", "U+1947", "U+1948", "U+1949", "U+194A", "U+194B", "U+194C", "U+194D", "U+194E", "U+194F">>,
       <<"U+19D0", "U+19D1", "U+19D2", "U+19D3", "U+19D4", "U+19D5", "U+19D6", "U+19D7", "U+19D8", "U+19D9">>,
       <<"U+1A80", "U+1A81", "U+1A82", "U+1A83", "U+1A84", "U+1A85", "U+1A86", "U+1A87", "U+1A88", "U+1A89">>,
       <<"U+1A90", "U+1A91", "U+1A92", "U+1A93", "U+1A94", "U+1A95", "U+1A96", "U+1A97", "U+1A98", "U+1A99">>,
       <<"U+1B50", "U+1B51", "U+1B52", "U+1B53", "U+1B54", "U+1B55", "U+1B56", "U+1B57", "U+1B58", "U+1B59">>,
       <<"U+1BB0", "U+1BB1", "U+1BB2", "U+1BB3", "U+1BB4", "U+1BB5", "U+1BB6", "U+1BB7", "U+1BB8", "U+1BB9">>,
       <<"U+1C40", "U+1C41", "U+1C42", "U+1C43", "U+1C44", "U+1C45", "U+1C46", "U+1C47", "U+1C48", "U+1C49">>,
       <<"U+1C50", "U+1C51", "U+1C52", "U+1C53", "U+1C54", "U+1C55", "U+1C56", "U+1C57", "U+1C58", "U+1C59">>,
       <<"U+A620", "U+A621", "U+A622", "U+A623", "U+A624", "U+A625", "U+A626", "U+A627", "U+A628", "U+A629">>,
       <<"U+A8D0", "U+A8D1", "U+A8D2", "U+A8D3", "U+A8D4", "U+A8D5", "U+A8D6", "U+A8D7", "U+A8D8", "U+A8D9">>,
       <<"U+A900", "U+A901", "U+A902", "U+A903", "U+A904", "U+A905", "U+A906", "U+A907", "U+A908", "U+A909">>,
       <<"U+A9D0", "U+A9D1", "U+A9D2", "U+A9D3", "U+A9D4", "U+A9D5", "U+A9D6", "U+A9D7", "U+A9D8", "U+A9D9">>,
       <<"U+A9F0", "U+A9F1", "U+A9F2", "U+A9F3", "U+A9F4", "U+A9F5", "U+A9F6", "U+A9F7", "U+A9F8", "U+A9F9">>,
       <<"U+AA50", "U+AA51", "U+AA52", "U+AA53", "U+AA54", "U+AA55", "U+AA56", "U+AA57", "U+AA58", "U+AA59">>,
       <<"U+ABF0", "U+ABF1", "U+ABF2", "U+ABF3", "U+ABF4", "U+ABF5", "U+ABF6", "U+ABF7", "U+ABF8", "U+ABF9">>,
       <<"U+FF10", "U+FF11", "U+FF12", "U+FF13", "U+FF14", "U+FF15", "U+FF16", "U+FF17", "U+FF18", "U+FF19">>,
       <<"U+104A0", "U+104A1", "U+104A2", "U+104A3", "U+104A4", "U+104A5", "U+104A6", "U+104A7", "U+104A8", "U+104A9">>,
       <<"U+10D30", "U+10D31", "U+10D32", "U+10D33", "U+10D34", "U+10D35", "U+10D36", "U+10D37", "U+10D38", "U+10D39">>,
       <<"U+11066", "U+11067", "U+11068", "U+11069", "U+1106A", "U+1106B", "U+1106C", "U+1106D", "U+1106E", "U+1106F">>,
       <<"U+110F0", "U+110F1", "U+110F2", "U+110F3", "U+110F4", "U+110F5", "U+110F6", "U+110F7", "U+110F8", "U+110F9">>,
       <<"U+11136", "U+11137", "U+11138", "U+11139", "U+1113A", "U+1113B", "U+1113C", "U+1113D", "U+1113E", "U+1113F">>,
       <<"U+111D0", "U+111D1", "U+111D2", "U+111D3", "U+111D4", "U+111D5", "U+111D6", "U+111D7", "U+111D8", "U+111D9">>,
       <<"U+112F0", "U+112F1", "U+112F2", "U+112F3", "U+112F4", "U+112F5", "U+112F6", "U+112F7", "U+112F8", "U+112F9">>,
       <<"U+11450", "U+11451", "U+11452", "U+11453", "U+11454", "U+11455", "U+11456", "U+11457", "U+11458", "U+11459">>,
       <<"U+114D0", "U+114D1", "U+114D2", "U+114D3", "U+114D4", "U+114D5", "U+114D6", "U+114D7", "U+114D8", "U+114D9">>,
       <<"U+11650", "U+11651", "U+11652", "U+11653", "U+11654", "U+11655", "U+11656", "U+11657", "U+11658", "U+11659">>,
       <<"U+116C0", "U+116C1", "U+116C2", "U+116C3", "U+116C4", "U+116C5", "U+116C6", "U+116C7", "U+116C8", "U+116C9">>,
       <<"U+11730", "U+11731", "U+11732", "U+11733", "U+11734", "U+11735", "U+11736", "U+11737", "U+11738", "U+11739">>,
       <<"U+118E0", "U+118E1", "U+118E2", "U+118E3", "U+118E4", "U+118E5", "U+118E6", "U+118E7", "U+118E8", "U+118E9">>,
       <<"U+11950", "U+11951", "U+11952", "U+11953", "U+11954", "U+11955", "U+11956", "U+11957", "U+11958", "U+11959">>,
       <<"U+11C50", "U+11C51", "U+11C52", "U+11C53", "U+11C54", "U+11C55", "U+11C56", "U+11C57", "U+11C58", "U+11C59">>,
       <<"U+11D50", "U+11D51", "U+11D52", "U+11D53", "U+11D54", "U+11D55", "U+11D56", "U+11D57", "U+11D58", "U+11D59">>,
       <<"U+11DA0", "U+11DA1", "U+11DA2", "U+11DA3", "U+11DA4", "U+11DA5", "U+11DA6", "U+11DA7", "U+11DA8", "U+11DA9">>,
       <<"U+16A60", "U+16A61", "U+16A62", "U+16A63", "U+16A64", "U+16A65", "U+16A66", "U+16A67", "U+16A68", "U+16A69">>,
       <<"U+16AC0", "U+16AC1", "U+16AC2", "U+16AC3", "U+16AC4", "U+16AC5", "U+16AC6", "U+16AC7", "U+16AC8", "U+16AC9">>,
       <<"U+16B50", "U+16B51", "U+16B52", "U+16B53", "U+16B54", "U+16B55", "U+16B56", "U+16B57", "U+16B58", "U+16B59">>,
       <<"U+1D7CE", "U+1D7CF", "U+1D7D0", "U+1D7D1", "U+1D7D2", "U+1D7D3", "U+1D7D4", "U+1D7D5", "U+1D7D6", "U+1D7D7">>,
       <<"U+1D7D8", "U+1D7D9", "U+1D7DA", "U+1D7DB", "U+1D7DC", "U+1D7DD", "U+1D7DE", "U+1D7DF", "U+1D7E0", "U+1D7E1">>,
       <<"U+1D7E2", "U+1D7E3", "U+1D7E4", "U+1D7E5", "U+1D7E6", "U+1D7E7", "U+1D7E8", "U+1D7E9", "U+1D7EA", "U+1D7EB">>,
       <<"U+1D7EC", "U+1D7ED", "U+1D7EE", "U+1D7EF", "U+1D7F0", "U+1D7F1", "U+1D7F2", "U+1D7F3", "U+1D7F4", "U+1D7F5">>,
       <<"U+1D7F6", "U+1D7F7", "U+1D7F8", "U+1D7F9", "U+1D7FA", "U+1D7FB", "U+1D7FC", "U+1D7FD", "U+1D7FE", "U+1D7FF">>,
       <<"U+1E140", "U+1E141", "U+1E142", "U+1E143", "U+1E144", "U+1E145", "U+1E146", "U+1E147", "U+1E148", "U+1E149">>,
       <<"U+1E2F0", "U+1E2F1", "U+1E2F2", "U+1E2F3", "U+1E2F4", "U+1E2F5", "U+1E2F6", "U+1E2F7", "U+1E2F8", "U+1E2F9">>,
       <<"U+1E950", "U+1E951", "U+1E952", "U+1E953", "U+1E954", "U+1E955", "U+1E956", "U+1E957", "U+1E958", "U+1E959">>,
       <<"U+1FBF0", "U+1FBF1", "U+1FBF2", "U+1FBF3", "U+1FBF4", "U+1FBF5", "U+1FBF6", "U+1FBF7", "U+1FBF8", "U+1FBF9">> >>

\* The characters str.lower() changes, and what each becomes (apart from the
\* capital sigma and the capital I with a dot, which follow).
UpperChars ==
    << "A", "B", "C", "D", "E", "F", "G", "H", "I", "J", "K", "L", "M", "N",
       "O", "P", "Q", "R", "S", "T", "U", "V", "W", "X", "Y", "Z", "U+00C0",
       "U+00C1", "U+00C2", "U+00C3", "U+00C4", "U+00C5", "U+00C6", "U+00C7",
       "U+00C8", "U+00C9", "U+00CA", "U+00CB", "U+00CC", "U+00CD", "U+00CE",
       "U+00CF", "U+00D0", "U+00D1", "U+00D2", "U+00D3", "U+00D4", "U+00D5",
       "U+00D6", "U+00D8", "U+00D9", "U+00DA", "U+00DB", "U+00DC", "U+00DD",
       "U+00DE", "U+0100", "U+0102", "U+0104", "U+0106", "U+0108", "U+010A",
       "U+010C", "U+010E", "U+0110", "U+0112", "U+0114", "U+0116", "U+0118",
       "U+011A", "U+011C", "U+011E", "U+0120", "U+0122", "U+0124", "U+0126",
       "U+0128", "U+012A", "U+012C", "U+012E", "U+0132", "U+0134", "U+0136",
       "U+0139", "U+013B", "U+013D", "U+013F", "U+0141", "U+0143", "U+0145",
       "U+0147", "U+014A", "U+014C", "U+014E", "U+0150", "U+0152", "U+0154",
       "U+0156", "U+0158", "U+015A", "U+015C", "U+015E", "U+0160", "U+0162",
       "U+0164", "U+0166", "U+0168", "U+016A", "U+016C", "U+016E", "U+0170",
       "U+0172", "U+0174", "U+0176", "U+0178", "U+0179", "U+017B", "U+017D",
       "U+0181", "U+0182", "U+0184", "U+0186", "U+0187", "U+0189", "U+018A",
       "U+018B", "U+018E", "U+018F", "U+0190", "U+0191", "U+0193", "U+0194",
       "U+0196", "U+0197", "U+0198", "U+019C", "U+019D", "U+019F", "U+01A0",
       "U+01A2", "U+01A4", "U+01A6", "U+01A7", "U+01A9", "U+01AC", "U+01AE",
       "U+01AF", "U+01B1", "U+01B2", "U+01B3", "U+01B5", "U+01B7", "U+01B8",
       "U+01BC", "U+01C4", "U+01C5", "U+01C7", "U+01C8", "U+01CA", "U+01CB",
       "U+01CD", "U+01CF", "U+01D1", "U+01D3", "U+01D5", "U+01D7", "U+01D9",
       "U+01DB", "U+01DE", "U+01E0", "U+01E2", "U+01E4", "U+01E6", "U+01E8",
       "U+01EA", "U+01EC", "U+01EE", "U+01F1", "U+01F2", "U+01F4", "U+01F6",
       "U+01F7", "U+01F8", "U+01FA", "U+01FC", "U+01FE", "U+0200", "U+0202",
       "U+0204", "U+0206", "U+0208", "U+020A", "U+020C", "U+020E", "U+0210",
       "U+0212", "U+0214", "U+0216", "U+0218", "U+021A", "U+021C", "U+021E",
       "U+0220", "U+0222", "U+0224", "U+0226", "U+0228", "U+022A", "U+022C",
       "U+022E", "U+0230", "U+0232", "U+023A", "U+023B", "U+023D", "U+023E",
       "U+0241", "U+0243", "U+0244", "U+0245", "U+0246", "U+0248", "U+024A",
       "U+024C", "U+024E", "U+0370", "U+0372", "U+0376", "U+037F", "U+0386",
       "U+0388", "U+0389", "U+038A", "U+038C", "U+038E", "U+038F", "U+0391",
       "U+0392", "U+0393", "U+0394", "U+0395", "U+0396", "U+0397", "U+0398",
       "U+0399", "U+039A", "U+039B", "U+039C", "U+039D", "U+039E", "U+039F",
       "U+03A0", "U+03A1", "U+03A4", "U+03A5", "U+03A6", "U+03A7", "U+03A8",
       "U+03A9", "U+03AA", "U+03AB", "U+03CF", "U+03D8", "U+03DA", "U+03DC",
       "U+03DE", "U+03E0", "U+03E2", "U+03E4", "U+03E6", "U+03E8", "U+03EA",
       "U+03EC", "U+03EE", "U+03F4", "U+03F7", "U+03F9", "U+03FA", "U+03FD",
       "U+03FE", "U+03FF", "U+0400", "U+0401", "U+0402", "U+0403", "U+0404",
       "U+0405", "U+0406", "U+0407", "U+0408", "U+0409", "U+040A", "U+040B",
       "U+040C", "U+040D", "U+040E", "U+040F", "U+0410", "U+0411", "U+0412",
       "U+0413", "U+0414", "U+0415", "U+0416", "U+0417", "U+0418", "U+0419",
       "U+041A", "U+041B", "U+041C", "U+041D", "U+041E", "U+041F", "U+0420",
       "U+0421", "U+0422", "U+0423", "U+0424", "U+0425", "U+0426", "U+0427",
       "U+0428", "U+0429", "U+042A", "U+042B", "U+042C", "U+042D", "U+042E",
       "U+042F", "U+0460", "U+0462", "U+0464", "U+0466", "U+0468", "U+046A",
       "U+046C", "U+046E", "U+0470", "U+0472", "U+0474", "U+0476", "U+0478",
       "U+047A", "U+047C", "U+047E", "U+0480", "U+048A", "U+048C", "U+048E",
       "U+0490", "U+0492", "U+0494", "U+0496", "U+0498", "U+049A", "U+049C",
       "U+049E", "U+04A0", "U+04A2", "U+04A4", "U+04A6", "U+04A8", "U+04AA",
       "U+04AC", "U+04AE", "U+04B0", "U+04B2", "U+04B4", "U+04B6", "U+04B8",
       "U+04BA", "U+04BC", "U+04BE", "U+04C0", "U+04C1", "U+04C3", "U+04C5",
       "U+04C7", "U+04C9", "U+04CB", "U+04CD", "U+04D0", "U+04D2", "U+04D4",
       "U+04D6", "U+04D8", "U+04DA", "U+04DC", "U+04DE", "U+04E0", "U+04E2",
       "U+04E4", "U+04E6", "U+04E8", "U+04EA", "U+04EC", "U+04EE", "U+04F0",
       "U+04F2", "U+04F4", "U+04F6", "U+04F8", "U+04FA", "U+04FC", "U+04FE",
       "U+0500", "U+0502", "U+0504", "U+0506", "U+0508", "U+050A", "U+050C",
       "U+050E", "U+0510", "U+0512", "U+0514", "U+0516", "U+0518", "U+051A",
       "U+051C", "U+051E", "U+0520", "U+0522", "U+0524", "U+0526", "U+0528",
       "U+052A", "U+052C", "U+052E", "U+0531", "U+0532", "U+0533", "U+0534",
       "U+0535", "U+0536", "U+0537", "U+0538", "U+0539", "U+053A", "U+053B",
       "U+053C", "U+053D", "U+053E", "U+053F", "U+0540", "U+0541", "U+0542",
       "U+0543", "U+0544", "U+0545", "U+0546", "U+0547", "U+0548", "U+0549",
       "U+054A", "U+054B", "U+054C", "U+054D", "U+054E", "U+054F", "U+0550",
       "U+0551", "U+0552", "U+0553", "U+0554", "U+0555", "U+0556", "U+10A0",
       "U+10A1", "U+10A2", "U+10A3", "U+10A4", "U+10A5", "U+10A6", "U+10A7",
       "U+10A8", "U+10A9", "U+10AA", "U+10AB", "U+10AC", "U+10AD", "U+10AE",
       "U+10AF", "U+10B0", "U+10B1", "U+10B2", "U+10B3", "U+10B4", "U+10B5",
       "U+10B6", "U+10B7", "U+10B8", "U+10B9", "U+10BA", "U+10BB", "U+10BC",
       "U+10BD", "U+10BE", "U+10BF", "U+10C0", "U+10C1", "U+10C2", "U+10C3",
       "U+10C4", "U+10C5", "U+10C7", "U+10CD", "U+13A0", "U+13A1", "U+13A2",
       "U+13A3", "U+13A4", "U+13A5", "U+13A6", "U+13A7", "U+13A8", "U+13A9",
       "U+13AA", "U+13AB", "U+13AC", "U+13AD", "U+13AE", "U+13AF", "U+13B0",
       "U+13B1", "U+13B2", "U+13B3", "U+13B4", "U+13B5", "U+13B6", "U+13B7",
       "U+13B8", "U+13B9", "U+13BA", "U+13BB", "U+13BC", "U+13BD", "U+13BE",
       "U+13BF", "U+13C0", "U+13C1", "U+13C2", "U+13C3", "U+13C4", "U+13C5",
       "U+13C6", "U+13C7", "U+13C8", "U+13C9", "U+13CA", "U+13CB", "U+13CC",
       "U+13CD", "U+13CE", "U+13CF", "U+13D0", "U+13D1", "U+13D2", "U+13D3",
       "U+13D4", "U+13D5", "U+13D6", "U+13D7", "U+13D8", "U+13D9", "U+13DA",
       "U+13DB", "U+13DC", "U+13DD", "U+13DE", "U+13DF", "U+13E0", "U+13E1",
       "U+13E2", "U+13E3", "U+13E4", "U+13E5", "U+13E6", "U+13E7", "U+13E8",
       "U+13E9", "U+13EA", "U+13EB", "U+13EC", "U+13ED", "U+13EE", "U+13EF",
       "U+13F0", "U+13F1", "U+13F2", "U+13F3", "U+13F4", "U+13F5", "U+1C90",
       "U+1C91", "U+1C92", "U+1C93", "U+1C94", "U+1C95", "U+1C96", "U+1C97",
       "U+1C98", "U+1C99", "U+1C9A", "U+1C9B", "U+1C9C", "U+1C9D", "U+1C9E",
       "U+1C9F", "U+1CA0", "U+1CA1", "U+1CA2", "U+1CA3", "U+1CA4", "U+1CA5",
       "U+1CA6", "U+1CA7", "U+1CA8", "U+1CA9", "U+1CAA", "U+1CAB", "U+1CAC",
       "U+1CAD", "U+1CAE", "U+1CAF", "U+1CB0", "U+1CB1", "U+1CB2", "U+1CB3",
       "U+1CB4", "U+1CB5", "U+1CB6", "U+1CB7", "U+1CB8", "U+1CB9", "U+1CBA",
       "U+1CBD", "U+1CBE", "U+1CBF", "U+1E00", "U+1E02", "U+1E04", "U+1E06",
       "U+1E08", "U+1E0A", "U+1E0C", "U+1E0E", "U+1E10", "U+1E12", "U+1E14",
       "U+1E16", "U+1E18", "U+1E1A", "U+1E1C", "U+1E1E", "U+1E20", "U+1E22",
       "U+1E24", "U+1E26", "U+1E28", "U+1E2A", "U+1E2C", "U+1E2E", "U+1E30",
       "U+1E32", "U+1E34", "U+1E36", "U+1E38", "U+1E3A", "U+1E3C", "U+1E3E",
       "U+1E40", "U+1E42", "U+1E44", "U+1E46", "U+1E48", "U+1E4A", "U+1E4C",
       "U+1E4E", "U+1E50", "U+1E52", "U+1E54", "U+1E56", "U+1E58", "U+1E5A",
       "U+1E5C", "U+1E5E", "U+1E60", "U+1E62", "U+1E64", "U+1E66", "U+1E68",
       "U+1E6A", "U+1E6C", "U+1E6E", "U+1E70", "U+1E72", "U+1E74", "U+1E76",
       "U+1E78", "U+1E7A", "U+1E7C", "U+1E7E", "U+1E80", "U+1E82", "U+1E84",
       "U+1E86", "U+1E88", "U+1E8A", "U+1E8C", "U+1E8E", "U+1E90", "U+1E92",
       "U+1E94", "U+1E9E", "U+1EA0", "U+1EA2", "U+1EA4", "U+1EA6", "U+1EA8",
       "U+1EAA", "U+1EAC", "U+1EAE", "U+1EB0", "U+1EB2", "U+1EB4", "U+1EB6",
       "U+1EB8", "U+1EBA", "U+1EBC", "U+1EBE", "U+1EC0", "U+1EC2", "U+1EC4",
       "U+1EC6", "U+1EC8", "U+1ECA", "U+1ECC", "U+1ECE", "U+1ED0", "U+1ED2",
       "U+1ED4", "U+1ED6", "U+1ED8", "U+1EDA", "U+1EDC", "U+1EDE", "U+1EE0",
       "U+1EE2", "U+1EE4", "U+1EE6", "U+1EE8", "U+1EEA", "U+1EEC", "U+1EEE",
       "U+1EF0", "U+1EF2", "U+1EF4", "U+1EF6", "U+1EF8", "U+1EFA", "U+1EFC",
       "U+1EFE", "U+1F08", "U+1F09", "U+1F0A", "U+1F0B", "U+1F0C", "U+1F0D",
       "U+1F0E", "U+1F0F", "U+1F18", "U+1F19", "U+1F1A", "U+1F1B", "U+1F1C",
       "U+1F1D", "U+1F28", "U+1F29", "U+1F2A", "U+1F2B", "U+1F2C", "U+1F2D",
       "U+1F2E", "U+1F2F", "U+1F38", "U+1F39", "U+1F3A", "U+1F3B", "U+1F3C",
       "U+1F3D", "U+1F3E", "U+1F3F", "U+1F48", "U+1F49", "U+1F4A", "U+1F4B",
       "U+1F4C", "U+1F4D", "U+1F59", "U+1F5B", "U+1F5D", "U+1F5F", "U+1F68",
       "U+1F69", "U+1F6A", "U+1F6B", "U+1F6C", "U+1F6D", "U+1F6E", "U+1F6F",
       "U+1F88", "U+1F89", "U+1F8A", "U+1F8B", "U+1F8C", "U+1F8D", "U+1F8E",
       "U+1F8F", "U+1F98", "U+1F99", "U+1F9A", "U+1F9B", "U+1F9C", "U+1F9D",
       "U+1F9E", "U+1F9F", "U+1FA8", "U+1FA9", "U+1FAA", "U+1FAB", "U+1FAC",
       "U+1FAD", "U+1FAE", "U+1FAF", "U+1FB8", "U+1FB9", "U+1FBA", "U+1FBB",
       "U+1FBC", "U+1FC8", "U+1FC9", "U+1FCA", "U+1FCB", "U+1FCC", "U+1FD8",
       "U+1FD9", "U+1FDA", "U+1FDB", "U+1FE8", "U+1FE9", "U+1FEA", "U+1FEB",
       "U+1FEC", "U+1FF8", "U+1FF9", "U+1FFA", "U+1FFB", "U+1FFC", "U+2126",
       "U+212A", "U+212B", "U+2132", "U+2160", "U+2161", "U+2162", "U+2163",
       "U+2164", "U+2165", "U+2166", "U+2167", "U+2168", "U+2169", "U+216A",
       "U+216B", "U+216C", "U+216D", "U+216E", "U+216F", "U+2183", "U+24B6",
       "U+24B7", "U+24B8", "U+24B9", "U+24BA", "U+24BB", "U+24BC", "U+24BD",
       "U+24BE", "U+24BF", "U+24C0", "U+24C1", "U+24C2", "U+24C3", "U+24C4",
       "U+24C5", "U+24C6", "U+24C7", "U+24C8", "U+24C9", "U+24CA", "U+24CB",
       "U+24CC", "U+24CD", "U+24CE", "U+24CF", "U+2C00", "U+2C01", "U+2C02",
       "U+2C03", "U+2C04", "U+2C05", "U+2C06", "U+2C07", "U+2C08", "U+2C09",
       "U+2C0A", "U+2C0B", "U+2C0C", "U+2C0D", "U+2C0E", "U+2C0F", "U+2C10",
       "U+2C11", "U+2C12", "U+2C13", "U+2C14", "U+2C15", "U+2C16", "U+2C17",
       "U+2C18", "U+2C19", "U+2C1A", "U+2C1B", "U+2C1C", "U+2C1D", "U+2C1E",
       "U+2C1F", "U+2C20", "U+2C21", "U+2C22", "U+2C23", "U+2C24", "U+2C25",
       "U+2C26", "U+2C27", "U+2C28", "U+2C29", "U+2C2A", "U+2C2B", "U+2C2C",
       "U+2C2D", "U+2C2E", "U+2C2F", "U+2C60", "U+2C62", "U+2C63", "U+2C64",
       "U+2C67", "U+2C69", "U+2C6B", "U+2C6D", "U+2C6E", "U+2C6F", "U+2C70",
       "U+2C72", "U+2C75", "U+2C7E", "U+2C7F", "U+2C80", "U+2C82", "U+2C84",
       "U+2C86", "U+2C88", "U+2C8A", "U+2C8C", "U+2C8E", "U+2C90", "U+2C92",
       "U+2C94", "U+2C96", "U+2C98", "U+2C9A", "U+2C9C", "U+2C9E", "U+2CA0",
       "U+2CA2", "U+2CA4", "U+2CA6", "U+2CA8", "U+2CAA", "U+2CAC", "U+2CAE",
       "U+2CB0", "U+2CB2", "U+2CB4", "U+2CB6", "U+2CB8", "U+2CBA", "U+2CBC",
       "U+2CBE", "U+2CC0", "U+2CC2", "U+2CC4", "U+2CC6", "U+2CC8", "U+2CCA",
       "U+2CCC", "U+2CCE", "U+2CD0", "U+2CD2", "U+2CD4", "U+2CD6", "U+2CD8",
       "U+2CDA", "U+2CDC", "U+2CDE", "U+2CE0", "U+2CE2", "U+2CEB", "U+2CED",
       "U+2CF2", "U+A640", "U+A642", "U+A644", "U+A646", "U+A648", "U+A64A",
       "U+A64C", "U+A64E", "U+A650", "U+A652", "U+A654", "U+A656", "U+A658",
       "U+A65A", "U+A65C", "U+A65E", "U+A660", "U+A662", "U+A664", "U+A666",
       "U+A668", "U+A66A", "U+A66C", "U+A680", "U+A682", "U+A684", "U+A686",
       "U+A688", "U+A68A", "U+A68C", "U+A68E", "U+A690", "U+A692", "U+A694",
       "U+A696", "U+A698", "U+A69A", "U+A722", "U+A724", "U+A726", "U+A728",
       "U+A72A", "U+A72C", "U+A72E", "U+A732", "U+A734", "U+A736", "U+A738",
       "U+A73A", "U+A73C", "U+A73E", "U+A740", "U+A742", "U+A744", "U+A746",
       "U+A748", "U+A74A", "U+A74C", "U+A74E", "U+A750", "U+A752", "U+A754",
       "U+A756", "U+A758", "U+A75A", "U+A75C", "U+A75E", "U+A760", "U+A762",
       "U+A764", "U+A766", "U+A768", "U+A76A", "U+A76C", "U+A76E", "U+A779",
       "U+A77B", "U+A77D", "U+A77E", "U+A780", "U+A782", "U+A784", "U+A786",
       "U+A78B", "U+A78D", "U+A790", "U+A792", "U+A796", "U+A798", "U+A79A",
       "U+A79C", "U+A79E", "U+A7A0", "U+A7A2", "U+A7A4", "U+A7A6", "U+A7A8",
       "U+A7AA", "U+A7AB", "U+A7AC", "U+A7AD", "U+A7AE", "U+A7B0", "U+A7B1",
       "U+A7B2", "U+A7B3", "U+A7B4", "U+A7B6", "U+A7B8", "U+A7BA", "U+A7BC",
       "U+A7BE", "U+A7C0", "U+A7C2", "U+A7C4", "U+A7C5", "U+A7C6", "U+A7C7",
       "U+A7C9", "U+A7D0", "U+A7D6", "U+A7D8", "U+A7F5", "U+FF21", "U+FF22",
       "U+FF23", "U+FF24", "U+FF25", "U+FF26", "U+FF27", "U+FF28", "U+FF29",
       "U+FF2A", "U+FF2B", "U+FF2C", "U+FF2D", "U+FF2E", "U+FF2F", "U+FF30",
       "U+FF31", "U+FF32", "U+FF33", "U+FF34", "U+FF35", "U+FF36", "U+FF37",
       "U+FF38", "U+FF39", "U+FF3A", "U+10400", "U+10401", "U+10402",
       "U+10403", "U+10404", "U+10405", "U+10406", "U+10407", "U+10408",
       "U+10409", "U+1040A", "U+1040B", "U+1040C", "U+1040D", "U+1040E",
       "U+1040F", "U+10410", "U+10411", "U+10412", "U+10413", "U+10414",
       "U+10415", "U+10416", "U+10417", "U+10418", "U+10419", "U+1041A",
       "U+1041B", "U+1041C", "U+1041D", "U+1041E", "U+1041F", "U+10420",
       "U+10421", "U+10422", "U+10423", "U+10424", "U+10425", "U+10426",
       "U+10427", "U+104B0", "U+104B1", "U+104B2", "U+104B3", "U+104B4",
       "U+104B5", "U+104B6", "U+104B7", "U+104B8", "U+104B9", "U+104BA",
       "U+104BB", "U+104BC", "U+104BD", "U+104BE", "U+104BF", "U+104C0",
       "U+104C1", "U+104C2", "U+104C3", "U+104C4", "U+104C5", "U+104C6",
       "U+104C7", "U+104C8", "U+104C9", "U+104CA", "U+104CB", "U+104CC",
       "U+104CD", "U+104CE", "U+104CF", "U+104D0", "U+104D1", "U+104D2",
       "U+104D3", "U+10570", "U+10571", "U+10572", "U+10573", "U+10574",
       "U+10575", "U+10576", "U+10577", "U+10578", "U+10579", "U+1057A",
       "U+1057C", "U+1057D", "U+1057E", "U+1057F", "U+10580", "U+10581",
       "U+10582", "U+10583", "U+10584", "U+10585", "U+10586", "U+10587",
       "U+10588", "U+10589", "U+1058A", "U+1058C", "U+1058D", "U+1058E",
       "U+1058F", "U+10590", "U+10591", "U+10592", "U+10594", "U+10595",
       "U+10C80", "U+10C81", "U+10C82", "U+10C83", "U+10C84", "U+10C85",
       "U+10C86", "U+10C87", "U+10C88", "U+10C89", "U+10C8A", "U+10C8B",
       "U+10C8C", "U+10C8D", "U+10C8E", "U+10C8F", "U+10C90", "U+10C91",
       "U+10C92", "U+10C93", "U+10C94", "U+10C95", "U+10C96", "U+10C97",
       "U+10C98", "U+10C99", "U+10C9A", "U+10C9B", "U+10C9C", "U+10C9D",
       "U+10C9E", "U+10C9F", "U+10CA0", "U+10CA1", "U+10CA2", "U+10CA3",
       "U+10CA4", "U+10CA5", "U+10CA6", "U+10CA7", "U+10CA8", "U+10CA9",
       "U+10CAA", "U+10CAB", "U+10CAC", "U+10CAD", "U+10CAE", "U+10CAF",
       "U+10CB0", "U+10CB1", "U+10CB2", "U+118A0", "U+118A1", "U+118A2",
       "U+118A3", "U+118A4", "U+118A5", "U+118A6", "U+118A7", "U+118A8",
       "U+118A9", "U+118AA", "U+118AB", "U+118AC", "U+118AD", "U+118AE",
       "U+118AF", "U+118B0", "U+118B1", "U+118B2", "U+118B3", "U+118B4",
       "U+118B5", "U+118B6", "U+118B7", "U+118B8", "U+118B9", "U+118BA",
       "U+118BB", "U+118BC", "U+118BD", "U+118BE", "U+118BF", "U+16E40",
       "U+16E41", "U+16E42", "U+16E43", "U+16E44", "U+16E45", "U+16E46",
       "U+16E47", "U+16E48", "U+16E49", "U+16E4A", "U+16E4B", "U+16E4C",
       "U+16E4D", "U+16E4E", "U+16E4F", "U+16E50", "U+16E51", "U+16E52",
       "U+16E53", "U+16E54", "U+16E55", "U+16E56", "U+16E57", "U+16E58",
       "U+16E59", "U+16E5A", "U+16E5B", "U+16E5C", "U+16E5D", "U+16E5E",
       "U+16E5F", "U+1E900", "U+1E901", "U+1E902", "U+1E903", "U+1E904",
       "U+1E905", "U+1E906", "U+1E907", "U+1E908", "U+1E909", "U+1E90A",
       "U+1E90B", "U+1E90C", "U+1E90D", "U+1E90E", "U+1E90F", "U+1E910",
       "U+1E911", "U+1E912", "U+1E913", "U+1E914", "U+1E915", "U+1E916",
       "U+1E917", "U+1E918", "U+1E919", "U+1E91A", "U+1E91B", "U+1E91C",
       "U+1E91D", "U+1E91E", "U+1E91F", "U+1E920", "U+1E921" >>

LowerChars ==
    << "a", "b", "c", "d", "e", "f", "g", "h", "i", "j", "k", "l", "m", "n",
       "o", "p", "q", "r", "s", "t", "u", "v", "w", "x", "y", "z", "U+00E0",
       "U+00E1", "U+00E2", "U+00E3", "U+00E4", "U+00E5", "U+00E6", "U+00E7",
       "U+00E8", "U+00E9", "U+00EA", "U+00EB", "U+00EC", "U+00ED", "U+00EE",
       "U+00EF", "U+00F0", "U+00F1", "U+00F2", "U+00F3", "U+00F4", "U+00F5",
       "U+00F6", "U+00F8", "U+00F9", "U+00FA", "U+00FB", "U+00FC", "U+00FD",
       "U+00FE", "U+0101", "U+0103", "U+0105", "U+0107", "U+0109", "U+010B",
       "U+010D", "U+010F", "U+0111", "U+0113", "U+0115", "U+0117", "U+0119",
       "U+011B", "U+011D", "U+011F", "U+0121", "U+0123", "U+0125", "U+0127",
       "U+0129", "U+012B", "U+012D", "U+012F", "U+0133", "U+0135", "U+0137",
       "U+013A", "U+013C", "U+013E", "U+0140", "U+0142", "U+0144", "U+0146",
       "U+0148", "U+014B", "U+014D", "U+014F", "U+0151", "U+0153", "U+0155",
       "U+0157", "U+0159", "U+015B", "U+015D", "U+015F", "U+0161", "U+0163",
       "U+0165", "U+0167", "U+0169", "U+016B", "U+016D", "U+016F", "U+0171",
       "U+0173", "U+0175", "U+0177", "U+00FF", "U+017A", "U+017C", "U+017E",
       "U+0253", "U+0183", "U+0185", "U+0254", "U+0188", "U+0256", "U+0257",
       "U+018C", "U+01DD", "U+0259", "U+025B", "U+0192", "U+0260", "U+0263",
       "U+0269", "U+0268", "U+0199", "U+026F", "U+0272", "U+0275", "U+01A1",
       "U+01A3", "U+01A5", "U+0280", "U+01A8", "U+0283", "U+01AD", "U+0288",
       "U+01B0", "U+028A", "U+028B", "U+01B4", "U+01B6", "U+0292", "U+01B9",
       "U+01BD", "U+01C6", "U+01C6", "U+01C9", "U+01C9", "U+01CC", "U+01CC",
       "U+01CE", "U+01D0", "U+01D2", "U+01D4", "U+01D6", "U+01D8", "U+01DA",
       "U+01DC", "U+01DF", "U+01E1", "U+01E3", "U+01E5", "U+01E7", "U+01E9",
       "U+01EB", "U+01ED", "U+01EF", "U+01F3", "U+01F3", "U+01F5", "U+0195",
       "U+01BF", "U+01F9", "U+01FB", "U+01FD", "U+01FF", "U+0201", "U+0203",
       "U+0205", "U+0207", "U+0209", "U+020B", "U+020D", "U+020F", "U+0211",
       "U+0213", "U+0215", "U+0217", "U+0219", "U+021B", "U+021D", "U+021F",
       "U+019E", "U+0223", "U+0225", "U+0227", "U+0229", "U+022B", "U+022D",
       "U+022F", "U+0231", "U+0233", "U+2C65", "U+023C", "U+019A", "U+2C66",
       "U+0242", "U+0180", "U+0289", "U+028C", "U+0247", "U+0249", "U+024B",
       "U+024D", "U+024F", "U+0371", "U+0373", "U+0377", "U+03F3", "U+03AC",
       "U+03AD", "U+03AE", "U+03AF", "U+03CC", "U+03CD", "U+03CE", "U+03B1",
       "U+03B2", "U+03B3", "U+03B4", "U+03B5", "U+03B6", "U+03B7", "U+03B8",
       "U+03B9", "U+03BA", "U+03BB", "U+03BC", "U+03BD", "U+03BE", "U+03BF",
       "U+03C0", "U+03C1", "U+03C4", "U+03C5", "U+03C6", "U+03C7", "U+03C8",
       "U+03C9", "U+03CA", "U+03CB", "U+03D7", "U+03D9", "U+03DB", "U+03DD",
       "U+03DF", "U+03E1", "U+03E3", "U+03E5", "U+03E7", "U+03E9", "U+03EB",
       "U+03ED", "U+03EF", "U+03B8", "U+03F8", "U+03F2", "U+03FB", "U+037B",
       "U+037C", "U+037D", "U+0450", "U+0451", "U+0452", "U+0453", "U+0454",
       "U+0455", "U+0456", "U+0457", "U+0458", "U+0459", "U+045A", "U+045B",
       "U+045C", "U+045D", "U+045E", "U+045F", "U+0430", "U+0431", "U+0432",
       "U+0433", "U+0434", "U+0435", "U+0436", "U+0437", "U+0438", "U+0439",
       "U+043A", "U+043B", "U+043C", "U+043D", "U+043E", "U+043F", "U+0440",
       "U+0441", "U+0442", "U+0443", "U+0444", "U+0445", "U+0446", "U+0447",
       "U+0448", "U+0449", "U+044A", "U+044B", "U+044C", "U+044D", "U+044E",
       "U+044F", "U+0461", "U+0463", "U+0465", "U+0467", "U+0469", "U+046B",
       "U+046D", "U+046F", "U+0471", "U+0473", "U+0475", "U+0477", "U+0479",
       "U+047B", "U+047D", "U+047F", "U+0481", "U+048B", "U+048D", "U+048F",
       "U+0491", "U+0493", "U+0495", "U+0497", "U+0499", "U+049B", "U+049D",
       "U+049F", "U+04A1", "U+04A3", "U+04A5", "U+04A7", "U+04A9", "U+04AB",
       "U+04AD", "U+04AF", "U+04B1", "U+04B3", "U+04B5", "U+04B7", "U+04B9",
       "U+04BB", "U+04BD", "U+04BF", "U+04CF", "U+04C2", "U+04C4", "U+04C6",
       "U+04C8", "U+04CA", "U+04CC", "U+04CE", "U+04D1", "U+04D3", "U+04D5",
       "U+04D7", "U+04D9", "U+04DB", "U+04DD", "U+04DF", "U+04E1", "U+04E3",
       "U+04E5", "U+04E7", "U+04E9", "U+04EB", "U+04ED", "U+04EF", "U+04F1",
       "U+04F3", "U+04F5", "U+04F7", "U+04F9", "U+04FB", "U+04FD", "U+04FF",
       "U+0501", "U+0503", "U+0505", "U+0507", "U+0509", "U+050B", "U+050D",
       "U+050F", "U+0511", "U+0513", "U+0515", "U+0517", "U+0519", "U+051B",
       "U+051D", "U+051F", "U+0521", "U+0523", "U+0525", "U+0527", "U+0529",
       "U+052B", "U+052D", "U+052F", "U+0561", "U+0562", "U+0563", "U+0564",
       "U+0565", "U+0566", "U+0567", "U+0568", "U+0569", "U+056A", "U+056B",
       "U+056C", "U+056D", "U+056E", "U+056F", "U+0570", "U+0571", "U+0572",
       "U+0573", "U+0574", "U+0575", "U+0576", "U+0577", "U+0578", "U+0579",
       "U+057A", "U+057B", "U+057C", "U+057D", "U+057E", "U+057F", "U+0580",
       "U+0581", "U+0582", "U+0583", "U+0584", "U+0585", "U+0586", "U+2D00",
       "U+2D01", "U+2D02", "U+2D03", "U+2D04", "U+2D05", "U+2D06", "U+2D07",
       "U+2D08", "U+2D09", "U+2D0A", "U+2D0B", "U+2D0C", "U+2D0D", "U+2D0E",
       "U+2D0F", "U+2D10", "U+2D11", "U+2D12", "U+2D13", "U+2D14", "U+2D15",
       "U+2D16", "U+2D17", "U+2D18", "U+2D19", "U+2D1A", "U+2D1B", "U+2D1C",
       "U+2D1D", "U+2D1E", "U+2D1F", "U+2D20", "U+2D21", "U+2D22", "U+2D23",
       "U+2D24", "U+2D25", "U+2D27", "U+2D2D", "U+AB70", "U+AB71", "U+AB72",
       "U+AB73", "U+AB74", "U+AB75", "U+AB76", "U+AB77", "U+AB78", "U+AB79",
       "U+AB7A", "U+AB7B", "U+AB7C", "U+AB7D", "U+AB7E", "U+AB7F", "U+AB80",
       "U+AB81", "U+AB82", "U+AB83", "U+AB84", "U+AB85", "U+AB86", "U+AB87",
       "U+AB88", "U+AB89", "U+AB8A", "U+AB8B", "U+AB8C", "U+AB8D", "U+AB8E",
       "U+AB8F", "U+AB90", "U+AB91", "U+AB92", "U+AB93", "U+AB94", "U+AB95",
       "U+AB96", "U+AB97", "U+AB98", "U+AB99", "U+AB9A", "U+AB9B", "U+AB9C",
       "U+AB9D", "U+AB9E", "U+AB9F", "U+ABA0", "U+ABA1", "U+ABA2", "U+ABA3",
       "U+ABA4", "U+ABA5", "U+ABA6", "U+ABA7", "U+ABA8", "U+ABA9", "U+ABAA",
       "U+ABAB", "U+ABAC", "U+ABAD", "U+ABAE", "U+ABAF", "U+ABB0", "U+ABB1",
       "U+ABB2", "U+ABB3", "U+ABB4", "U+ABB5", "U+ABB6", "U+ABB7", "U+ABB8",
       "U+ABB9", "U+ABBA", "U+ABBB", "U+ABBC", "U+ABBD", "U+ABBE", "U+ABBF",
       "U+13F8", "U+13F9", "U+13FA", "U+13FB", "U+13FC", "U+13FD", "U+10D0",
       "U+10D1", "U+10D2", "U+10D3", "U+10D4", "U+10D5", "U+10D6", "U+10D7",
       "U+10D8", "U+10D9", "U+10DA", "U+10DB", "U+10DC", "U+10DD", "U+10DE",
       "U+10DF", "U+10E0", "U+10E1", "U+10E2", "U+10E3", "U+10E4", "U+10E5",
       "U+10E6", "U+10E7", "U+10E8", "U+10E9", "U+10EA", "U+10EB", "U+10EC",
       "U+10ED", "U+10EE", "U+10EF", "U+10F0", "U+10F1", "U+10F2", "U+10F3",
       "U+10F4", "U+10F5", "U+10F6", "U+10F7", "U+10F8", "U+10F9", "U+10FA",
       "U+10FD", "U+10FE", "U+10FF", "U+1E01", "U+1E03", "U+1E05", "U+1E07",
       "U+1E09", "U+1E0B", "U+1E0D", "U+1E0F", "U+1E11", "U+1E13", "U+1E15",
       "U+1E17", "U+1E19", "U+1E1B", "U+1E1D", "U+1E1F", "U+1E21", "U+1E23",
       "U+1E25", "U+1E27", "U+1E29", "U+1E2B", "U+1E2D", "U+1E2F", "U+1E31",
       "U+1E33", "U+1E35", "U+1E37", "U+1E39", "U+1E3B", "U+1E3D", "U+1E3F",
       "U+1E41", "U+1E43", "U+1E45", "U+1E47", "U+1E49", "U+1E4B", "U+1E4D",
       "U+1E4F", "U+1E51", "U+1E53", "U+1E55", "U+1E57", "U+1E59", "U+1E5B",
       "U+1E5D", "U+1E5F", "U+1E61", "U+1E63", "U+1E65", "U+1E67", "U+1E69",
       "U+1E6B", "U+1E6D", "U+1E6F", "U+1E71", "U+1E73", "U+1E75", "U+1E77",
       "U+1E79", "U+1E7B", "U+1E7D", "U+1E7F", "U+1E81", "U+1E83", "U+1E85",
       "U+1E87", "U+1E89", "U+1E8B", "U+1E8D", "U+1E8F", "U+1E91", "U+1E93",
       "U+1E95", "U+00DF", "U+1EA1", "U+1EA3", "U+1EA5", "U+1EA7", "U+1EA9",
       "U+1EAB", "U+1EAD", "U+1EAF", "U+1EB1", "U+1EB3", "U+1EB5", "U+1EB7",
       "U+1EB9", "U+1EBB", "U+1EBD", "U+1EBF", "U+1EC1", "U+1EC3", "U+1EC5",
       "U+1EC7", "U+1EC9", "U+1ECB", "U+1ECD", "U+1ECF", "U+1ED1", "U+1ED3",
       "U+1ED5", "U+1ED7", "U+1ED9", "U+1EDB", "U+1EDD", "U+1EDF", "U+1EE1",
       "U+1EE3", "U+1EE5", "U+1EE7", "U+1EE9", "U+1EEB", "U+1EED", "U+1EEF",
       "U+1EF1", "U+1EF3", "U+1EF5", "U+1EF7", "U+1EF9", "U+1EFB", "U+1EFD",
       "U+1EFF", "U+1F00", "U+1F01", "U+1F02", "U+1F03", "U+1F04", "U+1F05",
       "U+1F06", "U+1F07", "U+1F10", "U+1F11", "U+1F12", "U+1F13", "U+1F14",
       "U+1F15", "U+1F20", "U+1F21", "U+1F22", "U+1F23", "U+1F24", "U+1F25",
       "U+1F26", "U+1F27", "U+1F30", "U+1F31", "U+1F32", "U+1F33", "U+1F34",
       "U+1F35", "U+1F36", "U+1F37", "U+1F40", "U+1F41", "U+1F42", "U+1F43",
       "U+1F44", "U+1F45", "U+1F51", "U+1F53", "U+1F55", "U+1F57", "U+1F60",
       "U+1F61", "U+1F62", "U+1F63", "U+1F64", "U+1F65", "U+1F66", "U+1F67",
       "U+1F80", "U+1F81", "U+1F82", "U+1F83", "U+1F84", "U+1F85", "U+1F86",
       "U+1F87", "U+1F90", "U+1F91", "U+1F92", "U+1F93", "U+1F94", "U+1F95",
       "U+1F96", "U+1F97", "U+1FA0", "U+1FA1", "U+1FA2", "U+1FA3", "U+1FA4",
       "U+1FA5", "U+1FA6", "U+1FA7", "U+1FB0", "U+1FB1", "U+1F70", "U+1F71",
       "U+1FB3", "U+1F72", "U+1F73", "U+1F74", "U+1F75", "U+1FC3", "U+1FD0",
       "U+1FD1", "U+1F76", "U+1F77", "U+1FE0", "U+1FE1", "U+1F7A", "U+1F7B",
       "U+1FE5", "U+1F78", "U+1F79", "U+1F7C", "U+1F7D", "U+1FF3", "U+03C9",
       "k", "U+00E5", "U+214E", "U+2170", "U+2171", "U+2172", "U+2173",
       "U+2174", "U+2175", "U+2176", "U+2177", "U+2178", "U+2179", "U+217A",
       "U+217B", "U+217C", "U+217D", "U+217E", "U+217F", "U+2184", "U+24D0",
       "U+24D1", "U+24D2", "U+24D3", "U+24D4", "U+24D5", "U+24D6", "U+24D7",
       "U+24D8", "U+24D9", "U+24DA", "U+24DB", "U+24DC", "U+24DD", "U+24DE",
       "U+24DF", "U+24E0", "U+24E1", "U+24E2", "U+24E3", "U+24E4", "U+24E5",
       "U+24E6", "U+24E7", "U+24E8", "U+24E9", "U+2C30", "U+2C31", "U+2C32",
       "U+2C33", "U+2C34", "U+2C35", "U+2C36", "U+2C37", "U+2C38", "U+2C39",
       "U+2C3A", "U+2C3B", "U+2C3C", "U+2C3D", "U+2C3E", "U+2C3F", "U+2C40",
       "U+2C41", "U+2C42", "U+2C43", "U+2C44", "U+2C45", "U+2C46", "U+2C47",
       "U+2C48", "U+2C49", "U+2C4A", "U+2C4B", "U+2C4C", "U+2C4D", "U+2C4E",
       "U+2C4F", "U+2C50", "U+2C51", "U+2C52", "U+2C53", "U+2C54", "U+2C55",
       "U+2C56", "U+2C57", "U+2C58", "U+2C59", "U+2C5A", "U+2C5B", "U+2C5C",
       "U+2C5D", "U+2C5E", "U+2C5F", "U+2C61", "U+026B", "U+1D7D", "U+027D",
       "U+2C68", "U+2C6A", "U+2C6C", "U+0251", "U+0271", "U+0250", "U+0252",
       "U+2C73", "U+2C76", "U+023F", "U+0240", "U+2C81", "U+2C83", "U+2C85",
       "U+2C87", "U+2C89", "U+2C8B", "U+2C8D", "U+2C8F", "U+2C91", "U+2C93",
       "U+2C95", "U+2C97", "U+2C99", "U+2C9B", "U+2C9D", "U+2C9F", "U+2CA1",
       "U+2CA3", "U+2CA5", "U+2CA7", "U+2CA9", "U+2CAB", "U+2CAD", "U+2CAF",
       "U+2CB1", "U+2CB3", "U+2CB5", "U+2CB7", "U+2CB9", "U+2CBB", "U+2CBD",
       "U+2CBF", "U+2CC1", "U+2CC3", "U+2CC5", "U+2CC7", "U+2CC9", "U+2CCB",
       "U+2CCD", "U+2CCF", "U+2CD1", "U+2CD3", "U+2CD5", "U+2CD7", "U+2CD9",
       "U+2CDB", "U+2CDD", "U+2CDF", "U+2CE1", "U+2CE3", "U+2CEC", "U+2CEE",
       "U+2CF3", "U+A641", "U+A643", "U+A645", "U+A647", "U+A649", "U+A64B",
       "U+A64D", "U+A64F", "U+A651", "U+A653", "U+A655", "U+A657", "U+A659",
       "U+A65B", "U+A65D", "U+A65F", "U+A661", "U+A663", "U+A665", "U+A667",
       "U+A669", "U+A66B", "U+A66D", "U+A681", "U+A683", "U+A685", "U+A687",
       "U+A689", "U+A68B", "U+A68D", "U+A68F", "U+A691", "U+A693", "U+A695",
       "U+A697", "U+A699", "U+A69B", "U+A723", "U+A725", "U+A727", "U+A729",
       "U+A72B", "U+A72D", "U+A72F", "U+A733", "U+A735", "U+A737", "U+A739",
       "U+A73B", "U+A73D", "U+A73F", "U+A741", "U+A743", "U+A745", "U+A747",
       "U+A749", "U+A74B", "U+A74D", "U+A74F", "U+A751", "U+A753", "U+A755",
       "U+A757", "U+A759", "U+A75B", "U+A75D", "U+A75F", "U+A761", "U+A763",
       "U+A765", "U+A767", "U+A769", "U+A76B", "U+A76D", "U+A76F", "U+A77A",
       "U+A77C", "U+1D79", "U+A77F", "U+A781", "U+A783", "U+A785", "U+A787",
       "U+A78C", "U+0265", "U+A791", "U+A793", "U+A797", "U+A799", "U+A79B",
       "U+A79D", "U+A79F", "U+A7A1", "U+A7A3", "U+A7A5", "U+A7A7", "U+A7A9",
       "U+0266", "U+025C", "U+0261", "U+026C", "U+026A", "U+029E", "U+0287",
       "U+029D", "U+AB53", "U+A7B5", "U+A7B7", "U+A7B9", "U+A7BB", "U+A7BD",
       "U+A7BF", "U+A7C1", "U+A7C3", "U+A794", "U+0282", "U+1D8E", "U+A7C8",
       "U+A7CA", "U+A7D1", "U+A7D7", "U+A7D9", "U+A7F6", "U+FF41", "U+FF42",
       "U+FF43", "U+FF44", "U+FF45", "U+FF46", "U+FF47", "U+FF48", "U+FF49",
       "U+FF4A", "U+FF4B", "U+FF4C", "U+FF4D", "U+FF4E", "U+FF4F", "U+FF50",
       "U+FF51", "U+FF52", "U+FF53", "U+FF54", "U+FF55", "U+FF56", "U+FF57",
       "U+FF58", "U+FF59", "U+FF5A", "U+10428", "U+10429", "U+1042A",
       "U+1042B", "U+1042C", "U+1042D", "U+1042E", "U+1042F", "U+10430",
       "U+10431", "U+10432", "U+10433", "U+10434", "U+10435", "U+10436",
       "U+10437", "U+10438", "U+10439", "U+1043A", "U+1043B", "U+1043C",
       "U+1043D", "U+1043E", "U+1043F", "U+10440", "U+10441", "U+10442",
       "U+10443", "U+10444", "U+10445", "U+10446", "U+10447", "U+10448",
       "U+10449", "U+1044A", "U+1044B", "U+1044C", "U+1044D", "U+1044E",
       "U+1044F", "U+104D8", "U+104D9", "U+104DA", "U+104DB", "U+104DC",
       "U+104DD", "U+104DE", "U+104DF", "U+104E0", "U+104E1", "U+104E2",
       "U+104E3", "U+104E4", "U+104E5", "U+104E6", "U+104E7", "U+104E8",
       "U+104E9", "U+104EA", "U+104EB", "U+104EC", "U+104ED", "U+104EE",
       "U+104EF", "U+104F0", "U+104F1", "U+104F2", "U+104F3", "U+104F4",
       "U+104F5", "U+104F6", "U+104F7", "U+104F8", "U+104F9", "U+104FA",
       "U+104FB", "U+10597", "U+10598", "U+10599", "U+1059A", "U+1059B",
       "U+1059C", "U+1059D", "U+1059E", "U+1059F", "U+105A0", "U+105A1",
       "U+105A3", "U+105A4", "U+105A5", "U+105A6", "U+105A7", "U+105A8",
       "U+105A9", "U+105AA", "U+105AB", "U+105AC", "U+105AD", "U+105AE",
       "U+105AF", "U+105B0", "U+105B1", "U+105B3", "U+105B4", "U+105B5",
       "U+105B6", "U+105B7", "U+105B8", "U+105B9", "U+105BB", "U+105BC",
       "U+10CC0", "U+10CC1", "U+10CC2", "U+10CC3", "U+10CC4", "U+10CC5",
       "U+10CC6", "U+10CC7", "U+10CC8", "U+10CC9", "U+10CCA", "U+10CCB",
       "U+10CCC", "U+10CCD", "U+10CCE", "U+10CCF", "U+10CD0", "U+10CD1",
       "U+10CD2", "U+10CD3", "U+10CD4", "U+10CD5", "U+10CD6", "U+10CD7",
       "U+10CD8", "U+10CD9", "U+10CDA", "U+10CDB", "U+10CDC", "U+10CDD",
       "U+10CDE", "U+10CDF", "U+10CE0", "U+10CE1", "U+10CE2", "U+10CE3",
       "U+10CE4", "U+10CE5", "U+10CE6", "U+10CE7", "U+10CE8", "U+10CE9",
       "U+10CEA", "U+10CEB", "U+10CEC", "U+10CED", "U+10CEE", "U+10CEF",
       "U+10CF0", "U+10CF1", "U+10CF2", "U+118C0", "U+118C1", "U+118C2",
       "U+118C3", "U+118C4", "U+118C5", "U+118C6", "U+118C7", "U+118C8",
       "U+118C9", "U+118CA", "U+118CB", "U+118CC", "U+118CD", "U+118CE",
       "U+118CF", "U+118D0", "U+118D1", "U+118D2", "U+118D3", "U+118D4",
       "U+118D5", "U+118D6", "U+118D7", "U+118D8", "U+118D9", "U+118DA",
       "U+118DB", "U+118DC", "U+118DD", "U+118DE", "U+118DF", "U+16E60",
       "U+16E61", "U+16E62", "U+16E63", "U+16E64", "U+16E65", "U+16E66",
       "U+16E67", "U+16E68", "U+16E69", "U+16E6A", "U+16E6B", "U+16E6C",
       "U+16E6D", "U+16E6E", "U+16E6F", "U+16E70", "U+16E71", "U+16E72",
       "U+16E73", "U+16E74", "U+16E75", "U+16E76", "U+16E77", "U+16E78",
       "U+16E79", "U+16E7A", "U+16E7B", "U+16E7C", "U+16E7D", "U+16E7E",
       "U+16E7F", "U+1E922", "U+1E923", "U+1E924", "U+1E925", "U+1E926",
       "U+1E927", "U+1E928", "U+1E929", "U+1E92A", "U+1E92B", "U+1E92C",
       "U+1E92D", "U+1E92E", "U+1E92F", "U+1E930", "U+1E931", "U+1E932",
       "U+1E933", "U+1E934", "U+1E935", "U+1E936", "U+1E937", "U+1E938",
       "U+1E939", "U+1E93A", "U+1E93B", "U+1E93C", "U+1E93D", "U+1E93E",
       "U+1E93F", "U+1E940", "U+1E941", "U+1E942", "U+1E943" >>

\* Unicode's Case_Ignorable characters.
CaseIgnorable ==
    { "'", ".", ":", "^", "U+0060", "U+00A8", "U+00AD", "U+00AF", "U+00B4",
      "MIDDOT", "U+00B8", "U+02B0", "U+02B1", "U+02B2", "U+02B3", "U+02B4",
      "U+02B5", "U+02B6", "U+02B7", "U+02B8", "U+02B9", "U+02BA", "U+02BB",
      "U+02BC", "U+02BD", "U+02BE", "U+02BF", "U+02C0", "U+02C1", "U+02C2",
      "U+02C3", "U+02C4", "U+02C5", "U+02C6", "U+02C7", "U+02C8", "U+02C9",
      "U+02CA", "U+02CB", "U+02CC", "U+02CD", "U+02CE", "U+02CF", "U+02D0",
      "U+02D1", "U+02D2", "U+02D3", "U+02D4", "U+02D5", "U+02D6", "U+02D7",
      "U+02D8", "U+02D9", "U+02DA", "U+02DB", "U+02DC", "U+02DD", "U+02DE",
      "U+02DF", "U+02E0", "U+02E1", "U+02E2", "U+02E3", "U+02E4", "U+02E5",
      "U+02E6", "U+02E7", "U+02E8", "U+02E9", "U+02EA", "U+02EB", "U+02EC",
      "U+02ED", "U+02EE", "U+02EF", "U+02F0", "U+02F1", "U+02F2", "U+02F3",
      "U+02F4", "U+02F5", "U+02F6", "U+02F7", "U+02F8", "U+02F9", "U+02FA",
      "U+02FB", "U+02FC", "U+02FD", "U+02FE", "U+02FF", "U+0300", "U+0301",
      "U+0302", "U+0303", "U+0304", "U+0305", "U+0306", "U+0307", "U+0308",
      "U+0309", "U+030A", "U+030B", "U+030C", "U+030D", "U+030E", "U+030F",
      "U+0310", "U+0311", "U+0312", "U+0313", "U+0314", "U+0315", "U+0316",
      "U+0317", "U+0318", "U+0319", "U+031A", "U+031B", "U+031C", "U+031D",
      "U+031E", "U+031F", "U+0320", "U+0321", "U+0322", "U+0323", "U+0324",
      "U+0325", "U+0326", "U+0327", "U+0328", "U+0329", "U+032A", "U+032B",
      "U+032C", "U+032D", "U+032E", "U+032F", "U+0330", "U+0331", "U+0332",
      "U+0333", "U+0334", "U+0335", "U+0336", "U+0337", "U+0338", "U+0339",
      "U+033A", "U+033B", "U+033C", "U+033D", "U+033E", "U+033F", "U+0340",
      "U+0341", "U+0342", "U+0343", "U+0344", "U+0345", "U+0346", "U+0347",
      "U+0348", "U+0349", "U+034A", "U+034B", "U+034C", "U+034D", "U+034E",
      "U+034F", "U+0350", "U+0351", "U+0352", "U+0353", "U+0354", "U+0355",
      "U+0356", "U+0357", "U+0358", "U+0359", "U+035A", "U+035B", "U+035C",
      "U+035D", "U+035E", "U+035F", "U+0360", "U+0361", "U+0362", "U+0363",
      "U+0364", "U+0365", "U+0366", "U+0367", "U+0368", "U+0369", "U+036A",
      "U+036B", "U+036C", "U+036D", "U+036E", "U+036F", "U+0374", "U+0375",
      "U+037A", "U+0384", "U+0385", "U+0387", "U+0483", "U+0484", "U+0485",
      "U+0486", "U+0487", "U+0488", "U+0489", "U+0559", "U+055F", "U+0591",
      "U+0592", "U+0593", "U+0594", "U+0595", "U+0596", "U+0597", "U+0598",
      "U+0599", "U+059A", "U+059B", "U+059C", "U+059D", "U+059E", "U+059F",
      "U+05A0", "U+05A1", "U+05A2", "U+05A3", "U+05A4", "U+05A5", "U+05A6",
      "U+05A7", "U+05A8", "U+05A9", "U+05AA", "U+05AB", "U+05AC", "U+05AD",
      "U+05AE", "U+05AF", "U+05B0", "U+05B1", "U+05B2", "U+05B3", "U+05B4",
      "U+05B5", "U+05B6", "U+05B7", "U+05B8", "U+05B9", "U+05BA", "U+05BB",
      "U+05BC", "U+05BD", "U+05BF", "U+05C1", "U+05C2", "U+05C4", "U+05C5",
      "U+05C7", "U+05F4", "U+0600", "U+0601", "U+0602", "U+0603", "U+0604",
      "U+0605", "U+0610", "U+0611", "U+0612", "U+0613", "U+0614", "U+0615",
      "U+0616", "U+0617", "U+0618", "U+0619", "U+061A", "U+061C", "U+0640",
      "U+064B", "U+064C", "U+064D", "U+064E", "U+064F", "U+0650", "U+0651",
      "U+0652", "U+0653", "U+0654", "U+0655", "U+0656", "U+0657", "U+0658",
      "U+0659", "U+065A", "U+065B", "U+065C", "U+065D", "U+065E", "U+065F",
      "U+0670", "U+06D6", "U+06D7", "U+06D8", "U+06D9", "U+06DA", "U+06DB",
      "U+06DC", "U+06DD", "U+06DF", "U+06E0", "U+06E1", "U+06E2", "U+06E3",
      "U+06E4", "U+06E5", "U+06E6", "U+06E7", "U+06E8", "U+06EA", "U+06EB",
      "U+06EC", "U+06ED", "U+070F", "U+0711", "U+0730", "U+0731", "U+0732",
      "U+0733", "U+0734", "U+0735", "U+0736", "U+0737", "U+0738", "U+0739",
      "U+073A", "U+073B", "U+073C", "U+073D", "U+073E", "U+073F", "U+0740",
      "U+0741", "U+0742", "U+0743", "U+0744", "U+0745", "U+0746", "U+0747",
      "U+0748", "U+0749", "U+074A", "U+07A6", "U+07A7", "U+07A8", "U+07A9",
      "U+07AA", "U+07AB", "U+07AC", "U+07AD", "U+07AE", "U+07AF", "U+07B0",
      "U+07EB", "U+07EC", "U+07ED", "U+07EE", "U+07EF", "U+07F0", "U+07F1",
      "U+07F2", "U+07F3", "U+07F4", "U+07F5", "U+07FA", "U+07FD", "U+0816",
      "U+0817", "U+0818", "U+0819", "U+081A", "U+081B", "U+081C", "U+081D",
      "U+081E", "U+081F", "U+0820", "U+0821", "U+0822", "U+0823", "U+0824",
      "U+0825", "U+0826", "U+0827", "U+0828", "U+0829", "U+082A", "U+082B",
      "U+082C", "U+082D", "U+0859", "U+085A", "U+085B", "U+0888", "U+0890",
      "U+0891", "U+0898", "U+0899", "U+089A", "U+089B", "U+089C", "U+089D",
      "U+089E", "U+089F", "U+08C9", "U+08CA", "U+08CB", "U+08CC", "U+08CD",
      "U+08CE", "U+08CF", "U+08D0", "U+08D1", "U+08D2", "U+08D3", "U+08D4",
      "U+08D5", "U+08D6", "U+08D7", "U+08D8", "U+08D9", "U+08DA", "U+08DB",
      "U+08DC", "U+08DD", "U+08DE", "U+08DF", "U+08E0", "U+08E1", "U+08E2",
      "U+08E3", "U+08E4", "U+08E5", "U+08E6", "U+08E7", "U+08E8", "U+08E9",
      "U+08EA", "U+08EB", "U+08EC", "U+08ED", "U+08EE", "U+08EF", "U+08F0",
      "U+08F1", "U+08F2", "U+08F3", "U+08F4", "U+08F5", "U+08F6", "U+08F7",
      "U+08F8", "U+08F9", "U+08FA", "U+08FB", "U+08FC", "U+08FD", "U+08FE",
      "U+08FF", "U+0900", "U+0901", "U+0902", "U+093A", "U+093C", "U+0941",
      "U+0942", "U+0943", "U+0944", "U+0945", "U+0946", "U+0947", "U+0948",
      "U+094D", "U+0951", "U+0952", "U+0953", "U+0954", "U+0955", "U+0956",
      "U+0957", "U+0962", "U+0963", "U+0971", "U+0981", "U+09BC", "U+09C1",
      "U+09C2", "U+09C3", "U+09C4", "U+09CD", "U+09E2", "U+09E3", "U+09FE",
      "U+0A01", "U+0A02", "U+0A3C", "U+0A41", "U+0A42", "U+0A47", "U+0A48",
      "U+0A4B", "U+0A4C", "U+0A4D", "U+0A51", "U+0A70", "U+0A71", "U+0A75",
      "U+0A81", "U+0A82", "U+0ABC", "U+0AC1", "U+0AC2", "U+0AC3", "U+0AC4",
      "U+0AC5", "U+0AC7", "U+0AC8", "U+0ACD", "U+0AE2", "U+0AE3", "U+0AFA",
      "U+0AFB", "U+0AFC", "U+0AFD", "U+0AFE", "U+0AFF", "U+0B01", "U+0B3C",
      "U+0B3F", "U+0B41", "U+0B42", "U+0B43", "U+0B44", "U+0B4D", "U+0B55",
      "U+0B56", "U+0B62", "U+0B63", "U+0B82", "U+0BC0", "U+0BCD", "U+0C00",
      "U+0C04", "U+0C3C", "U+0C3E", "U+0C3F", "U+0C40", "U+0C46", "U+0C47",
      "U+0C48", "U+0C4A", "U+0C4B", "U+0C4C", "U+0C4D", "U+0C55", "U+0C56",
      "U+0C62", "U+0C63", "U+0C81", "U+0CBC", "U+0CBF", "U+0CC6", "U+0CCC",
      "U+0CCD", "U+0CE2", "U+0CE3", "U+0D00", "U+0D01", "U+0D3B", "U+0D3C",
      "U+0D41", "U+0D42", "U+0D43", "U+0D44", "U+0D4D", "U+0D62", "U+0D63",
      "U+0D81", "U+0DCA", "U+0DD2", "U+0DD3", "U+0DD4", "U+0DD6", "U+0E31",
      "U+0E34", "U+0E35", "U+0E36", "U+0E37", "U+0E38", "U+0E39", "U+0E3A",
      "U+0E46", "U+0E47", "U+0E48", "U+0E49", "U+0E4A", "U+0E4B", "U+0E4C",
      "U+0E4D", "U+0E4E", "U+0EB1", "U+0EB4", "U+0EB5", "U+0EB6", "U+0EB7",
      "U+0EB8", "U+0EB9", "U+0EBA", "U+0EBB", "U+0EBC", "U+0EC6", "U+0EC8",
      "U+0EC9", "U+0ECA", "U+0ECB", "U+0ECC", "U+0ECD", "U+0F18", "U+0F19",
      "U+0F35", "U+0F37", "U+0F39", "U+0F71", "U+0F72", "U+0F73", "U+0F74",
      "U+0F75", "U+0F76", "U+0F77", "U+0F78", "U+0F79", "U+0F7A", "U+0F7B",
      "U+0F7C", "U+0F7D", "U+0F7E", "U+0F80", "U+0F81", "U+0F82", "U+0F83",
      "U+0F84", "U+0F86", "U+0F87", "U+0F8D", "U+0F8E", "U+0F8F", "U+0F90",
      "U+0F91", "U+0F92", "U+0F93", "U+0F94", "U+0F95", "U+0F96", "U+0F97",
      "U+0F99", "U+0F9A", "U+0F9B", "U+0F9C", "U+0F9D", "U+0F9E", "U+0F9F",
      "U+0FA0", "U+0FA1", "U+0FA2", "U+0FA3", "U+0FA4", "U+0FA5", "U+0FA6",
      "U+0FA7", "U+0FA8", "U+0FA9", "U+0FAA", "U+0FAB", "U+0FAC", "U+0FAD",
      "U+0FAE", "U+0FAF", "U+0FB0", "U+0FB1", "U+0FB2", "U+0FB3", "U+0FB4",
      "U+0FB5", "U+0FB6", "U+0FB7", "U+0FB8", "U+0FB9", "U+0FBA", "U+0FBB",
      "U+0FBC", "U+0FC6", "U+102D", "U+102E", "U+102F", "U+1030", "U+1032",
      "U+1033", "U+1034", "U+1035", "U+1036", "U+1037", "U+1039", "U+103A",
      "U+103D", "U+103E", "U+1058", "U+1059", "U+105E", "U+105F", "U+1060",
      "U+1071", "U+1072", "U+1073", "U+1074", "U+1082", "U+1085", "U+1086",
      "U+108D", "U+109D", "U+10FC", "U+135D", "U+135E", "U+135F", "U+1712",
      "U+1713", "U+1714", "U+1732", "U+1733", "U+1752", "U+1753", "U+1772",
      "U+1773", "U+17B4", "U+17B5", "U+17B7", "U+17B8", "U+17B9", "U+17BA",
      "U+17BB", "U+17BC", "U+17BD", "U+17C6", "U+17C9", "U+17CA", "U+17CB",
      "U+17CC", "U+17CD", "U+17CE", "U+17CF", "U+17D0", "U+17D1", "U+17D2",
      "U+17D3", "U+17D7", "U+17DD", "U+180B", "U+180C", "U+180D", "U+180E",
      "U+180F", "U+1843", "U+1885", "U+1886", "U+18A9", "U+1920", "U+1921",
      "U+1922", "U+1927", "U+1928", "U+1932", "U+1939", "U+193A", "U+193B",
      "U+1A17", "U+1A18", "U+1A1B", "U+1A56", "U+1A58", "U+1A59", "U+1A5A",
      "U+1A5B", "U+1A5C", "U+1A5D", "U+1A5E", "U+1A60", "U+1A62", "U+1A65",
      "U+1A66", "U+1A67", "U+1A68", "U+1A69", "U+1A6A", "U+1A6B", "U+1A6C",
      "U+1A73", "U+1A74", "U+1A75", "U+1A76", "U+1A77", "U+1A78", "U+1A79",
      "U+1A7A", "U+1A7B", "U+1A7C", "U+1A7F", "U+1AA7", "U+1AB0", "U+1AB1",
      "U+1AB2", "U+1AB3", "U+1AB4", "U+1AB5", "U+1AB6", "U+1AB7", "U+1AB8",
      "U+1AB9", "U+1ABA", "U+1ABB", "U+1ABC", "U+1ABD", "U+1ABE", "U+1ABF",
      "U+1AC0", "U+1AC1", "U+1AC2", "U+1AC3", "U+1AC4", "U+1AC5", "U+1AC6",
      "U+1AC7", "U+1AC8", "U+1AC9", "U+1ACA", "U+1ACB", "U+1ACC", "U+1ACD",
      "U+1ACE", "U+1B00", "U+1B01", "U+1B02", "U+1B03", "U+1B34", "U+1B36",
      "U+1B37", "U+1B38", "U+1B39", "U+1B3A", "U+1B3C", "U+1B42", "U+1B6B",
      "U+1B6C", "U+1B6D", "U+1B6E", "U+1B6F", "U+1B70", "U+1B71", "U+1B72",
      "U+1B73", "U+1B80", "U+1B81", "U+1BA2", "U+1BA3", "U+1BA4", "U+1BA5",
      "U+1BA8", "U+1BA9", "U+1BAB", "U+1BAC", "U+1BAD", "U+1BE6", "U+1BE8",
      "U+1BE9", "U+1BED", "U+1BEF", "U+1BF0", "U+1BF1", "U+1C2C", "U+1C2D",
      "U+1C2E", "U+1C2F", "U+1C30", "U+1C31", "U+1C32", "U+1C33", "U+1C36",
      "U+1C37", "U+1C78", "U+1C79", "U+1C7A", "U+1C7B", "U+1C7C", "U+1C7D",
      "U+1CD0", "U+1CD1", "U+1CD2", "U+1CD4", "U+1CD5", "U+1CD6", "U+1CD7",
      "U+1CD8", "U+1CD9", "U+1CDA", "U+1CDB", "U+1CDC", "U+1CDD", "U+1CDE",
      "U+1CDF", "U+1CE0", "U+1CE2", "U+1CE3", "U+1CE4", "U+1CE5", "U+1CE6",
      "U+1CE7", "U+1CE8", "U+1CED", "U+1CF4", "U+1CF8", "U+1CF9", "U+1D2C",
      "U+1D2D", "U+1D2E", "U+1D2F", "U+1D30", "U+1D31", "U+1D32", "U+1D33",
      "U+1D34", "U+1D35", "U+1D36", "U+1D37", "U+1D38", "U+1D39", "U+1D3A",
      "U+1D3B", "U+1D3C", "U+1D3D", "U+1D3E", "U+1D3F", "U+1D40", "U+1D41",
      "U+1D42", "U+1D43", "U+1D44", "U+1D45", "U+1D46", "U+1D47", "U+1D48",
      "U+1D49", "U+1D4A", "U+1D4B", "U+1D4C", "U+1D4D", "U+1D4E", "U+1D4F",
      "U+1D50", "U+1D51", "U+1D52", "U+1D53", "U+1D54", "U+1D55", "U+1D56",
      "U+1D57", "U+1D58", "U+1D59", "U+1D5A", "U+1D5B", "U+1D5C", "U+1D5D",
      "U+1D5E", "U+1D5F", "U+1D60", "U+1D61", "U+1D62", "U+1D63", "U+1D64",
      "U+1D65", "U+1D66", "U+1D67", "U+1D68", "U+1D69", "U+1D6A", "U+1D78",
      "U+1D9B", "U+1D9C", "U+1D9D", "U+1D9E", "U+1D9F", "U+1DA0", "U+1DA1",
      "U+1DA2", "U+1DA3", "U+1DA4", "U+1DA5", "U+1DA6", "U+1DA7", "U+1DA8",
      "U+1DA9", "U+1DAA", "U+1DAB", "U+1DAC", "U+1DAD", "U+1DAE", "U+1DAF",
      "U+1DB0", "U+1DB1", "U+1DB2", "U+1DB3", "U+1DB4", "U+1DB5", "U+1DB6",
      "U+1DB7", "U+1DB8", "U+1DB9", "U+1DBA", "U+1DBB", "U+1DBC", "U+1DBD",
      "U+1DBE", "U+1DBF", "U+1DC0", "U+1DC1", "U+1DC2", "U+1DC3", "U+1DC4",
      "U+1DC5", "U+1DC6", "U+1DC7", "U+1DC8", "U+1DC9", "U+1DCA", "U+1DCB",
      "U+1DCC", "U+1DCD", "U+1DCE", "U+1DCF", "U+1DD0", "U+1DD1", "U+1DD2",
      "U+1DD3", "U+1DD4", "U+1DD5", "U+1DD6", "U+1DD7", "U+1DD8", "U+1DD9",
      "U+1DDA", "U+1DDB", "U+1DDC", "U+1DDD", "U+1DDE", "U+1DDF", "U+1DE0",
      "U+1DE1", "U+1DE2", "U+1DE3", "U+1DE4", "U+1DE5", "U+1DE6", "U+1DE7",
      "U+1DE8", "U+1DE9", "U+1DEA", "U+1DEB", "U+1DEC", "U+1DED", "U+1DEE",
      "U+1DEF", "U+1DF0", "U+1DF1", "U+1DF2", "U+1DF3", "U+1DF4", "U+1DF5",
      "U+1DF6", "U+1DF7", "U+1DF8", "U+1DF9", "U+1DFA", "U+1DFB", "U+1DFC",
      "U+1DFD", "U+1DFE", "U+1DFF", "U+1FBD", "U+1FBF", "U+1FC0", "U+1FC1",
      "U+1FCD", "U+1FCE", "U+1FCF", "U+1FDD", "U+1FDE", "U+1FDF", "U+1FED",
      "U+1FEE", "U+1FEF", "U+1FFD", "U+1FFE", "U+200B", "U+200C", "U+200D",
      "U+200E", "U+200F", "U+2018", "U+2019", "U+2024", "U+2027", "U+202A",
      "U+202B", "U+202C", "U+202D", "U+202E", "U+2060", "U+2061", "U+2062",
      "U+2063", "U+2064", "U+2066", "U+2067", "U+2068", "U+2069", "U+206A",
      "U+206B", "U+206C", "U+206D", "U+206E", "U+206F", "U+2071", "U+207F",
      "U+2090", "U+2091", "U+2092", "U+2093", "U+2094", "U+2095", "U+2096",
      "U+2097", "U+2098", "U+2099", "U+209A", "U+209B", "U+209C", "U+20D0",
      "U+20D1", "U+20D2", "U+20D3", "U+20D4", "U+20D5", "U+20D6", "U+20D7",
      "U+20D8", "U+20D9", "U+20DA", "U+20DB", "U+20DC", "U+20DD", "U+20DE",
      "U+20DF", "U+20E0", "U+20E1", "U+20E2", "U+20E3", "U+20E4", "U+20E5",
      "U+20E6", "U+20E7", "U+20E8", "U+20E9", "U+20EA", "U+20EB", "U+20EC",
      "U+20ED", "U+20EE", "U+20EF", "U+20F0", "U+2C7C", "U+2C7D", "U+2CEF",
      "U+2CF0", "U+2CF1", "U+2D6F", "U+2D7F", "U+2DE0", "U+2DE1", "U+2DE2",
      "U+2DE3", "U+2DE4", "U+2DE5", "U+2DE6", "U+2DE7", "U+2DE8", "U+2DE9",
      "U+2DEA", "U+2DEB", "U+2DEC", "U+2DED", "U+2DEE", "U+2DEF", "U+2DF0",
      "U+2DF1", "U+2DF2", "U+2DF3", "U+2DF4", "U+2DF5", "U+2DF6", "U+2DF7",
      "U+2DF8", "U+2DF9", "U+2DFA", "U+2DFB", "U+2DFC", "U+2DFD", "U+2DFE",
      "U+2DFF", "U+2E2F", "U+3005", "U+302A", "U+302B", "U+302C", "U+302D",
      "U+3031", "U+3032", "U+3033", "U+3034", "U+3035", "U+303B", "U+3099",
      "U+309A", "U+309B", "U+309C", "U+309D", "U+309E", "U+30FC", "U+30FD",
      "U+30FE", "U+A015", "U+A4F8", "U+A4F9", "U+A4FA", "U+A4FB", "U+A4FC",
      "U+A4FD", "U+A60C", "U+A66F", "U+A670", "U+A671", "U+A672", "U+A674",
      "U+A675", "U+A676", "U+A677", "U+A678", "U+A679", "U+A67A", "U+A67B",
      "U+A67C", "U+A67D", "U+A67F", "U+A69C", "U+A69D", "U+A69E", "U+A69F",
      "U+A6F0", "U+A6F1", "U+A700", "U+A701", "U+A702", "U+A703", "U+A704",
      "U+A705", "U+A706", "U+A707", "U+A708", "U+A709", "U+A70A", "U+A70B",
      "U+A70C", "U+A70D", "U+A70E", "U+A70F", "U+A710", "U+A711", "U+A712",
      "U+A713", "U+A714", "U+A715", "U+A716", "U+A717", "U+A718", "U+A719",
      "U+A71A", "U+A71B", "U+A71C", "U+A71D", "U+A71E", "U+A71F", "U+A720",
      "U+A721", "U+A770", "U+A788", "U+A789", "U+A78A", "U+A7F2", "U+A7F3",
      "U+A7F4", "U+A7F8", "U+A7F9", "U+A802", "U+A806", "U+A80B", "U+A825",
      "U+A826", "U+A82C", "U+A8C4", "U+A8C5", "U+A8E0", "U+A8E1", "U+A8E2",
      "U+A8E3", "U+A8E4", "U+A8E5", "U+A8E6", "U+A8E7", "U+A8E8", "U+A8E9",
      "U+A8EA", "U+A8EB", "U+A8EC", "U+A8ED", "U+A8EE", "U+A8EF", "U+A8F0",
      "U+A8F1", "U+A8FF", "U+A926", "U+A927", "U+A928", "U+A929", "U+A92A",
      "U+A92B", "U+A92C", "U+A92D", "U+A947", "U+A948", "U+A949", "U+A94A",
      "U+A94B", "U+A94C", "U+A94D", "U+A94E", "U+A94F", "U+A950", "U+A951",
      "U+A980", "U+A981", "U+A982", "U+A9B3", "U+A9B6", "U+A9B7", "U+A9B8",
      "U+A9B9", "U+A9BC", "U+A9BD", "U+A9CF", "U+A9E5", "U+A9E6", "U+AA29",
      "U+AA2A", "U+AA2B", "U+AA2C", "U+AA2D", "U+AA2E", "U+AA31", "U+AA32",
      "U+AA35", "U+AA36", "U+AA43", "U+AA4C", "U+AA70", "U+AA7C", "U+AAB0",
      "U+AAB2", "U+AAB3", "U+AAB4", "U+AAB7", "U+AAB8", "U+AABE", "U+AABF",
      "U+AAC1", "U+AADD", "U+AAEC", "U+AAED", "U+AAF3", "U+AAF4", "U+AAF6",
      "U+AB5B", "U+AB5C", "U+AB5D", "U+AB5E", "U+AB5F", "U+AB69", "U+AB6A",
      "U+AB6B", "U+ABE5", "U+ABE8", "U+ABED", "U+FB1E", "U+FBB2", "U+FBB3",
      "U+FBB4", "U+FBB5", "U+FBB6", "U+FBB7", "U+FBB8", "U+FBB9", "U+FBBA",
      "U+FBBB", "U+FBBC", "U+FBBD", "U+FBBE", "U+FBBF", "U+FBC0", "U+FBC1",
      "U+FBC2", "U+FE00", "U+FE01", "U+FE02", "U+FE03", "U+FE04", "U+FE05",
      "U+FE06", "U+FE07", "U+FE08", "U+FE09", "U+FE0A", "U+FE0B", "U+FE0C",
      "U+FE0D", "U+FE0E", "U+FE0F", "U+FE13", "U+FE20", "U+FE21", "U+FE22",
      "U+FE23", "U+FE24", "U+FE25", "U+FE26", "U+FE27", "U+FE28", "U+FE29",
      "U+FE2A", "U+FE2B", "U+FE2C", "U+FE2D", "U+FE2E", "U+FE2F", "U+FE52",
      "U+FE55", "U+FEFF", "U+FF07", "U+FF0E", "U+FF1A", "U+FF3E", "U+FF40",
      "U+FF70", "U+FF9E", "U+FF9F", "U+FFE3", "U+FFF9", "U+FFFA", "U+FFFB",
      "U+101FD", "U+102E0", "U+10376", "U+10377", "U+10378", "U+10379",
      "U+1037A", "U+10780", "U+10781", "U+10782", "U+10783", "U+10784",
      "U+10785", "U+10787", "U+10788", "U+10789", "U+1078A", "U+1078B",
      "U+1078C", "U+1078D", "U+1078E", "U+1078F", "U+10790", "U+10791",
      "U+10792", "U+10793", "U+10794", "U+10795", "U+10796", "U+10797",
      "U+10798", "U+10799", "U+1079A", "U+1079B", "U+1079C", "U+1079D",
      "U+1079E", "U+1079F", "U+107A0", "U+107A1", "U+107A2", "U+107A3",
      "U+107A4", "U+107A5", "U+107A6", "U+107A7", "U+107A8", "U+107A9",
      "U+107AA", "U+107AB", "U+107AC", "U+107AD", "U+107AE", "U+107AF",
      "U+107B0", "U+107B2", "U+107B3", "U+107B4", "U+107B5", "U+107B6",
      "U+107B7", "U+107B8", "U+107B9", "U+107BA", "U+10A01", "U+10A02",
      "U+10A03", "U+10A05", "U+10A06", "U+10A0C", "U+10A0D", "U+10A0E",
      "U+10A0F", "U+10A38", "U+10A39", "U+10A3A", "U+10A3F", "U+10AE5",
      "U+10AE6", "U+10D24", "U+10D25", "U+10D26", "U+10D27", "U+10EAB",
      "U+10EAC", "U+10F46", "U+10F47", "U+10F48", "U+10F49", "U+10F4A",
      "U+10F4B", "U+10F4C", "U+10F4D", "U+10F4E", "U+10F4F", "U+10F50",
      "U+10F82", "U+10F83", "U+10F84", "U+10F85", "U+11001", "U+11038",
      "U+11039", "U+1103A", "U+1103B", "U+1103C", "U+1103D", "U+1103E",
      "U+1103F", "U+11040", "U+11041", "U+11042", "U+11043", "U+11044",
      "U+11045", "U+11046", "U+11070", "U+11073", "U+11074", "U+1107F",
      "U+11080", "U+11081", "U+110B3", "U+110B4", "U+110B5", "U+110B6",
      "U+110B9", "U+110BA", "U+110BD", "U+110C2", "U+110CD", "U+11100",
      "U+11101", "U+11102", "U+11127", "U+11128", "U+11129", "U+1112A",
      "U+1112B", "U+1112D", "U+1112E", "U+1112F", "U+11130", "U+11131",
      "U+11132", "U+11133", "U+11134", "U+11173", "U+11180", "U+11181",
      "U+111B6", "U+111B7", "U+111B8", "U+111B9", "U+111BA", "U+111BB",
      "U+111BC", "U+111BD", "U+111BE", "U+111C9", "U+111CA", "U+111CB",
      "U+111CC", "U+111CF", "U+1122F", "U+11230", "U+11231", "U+11234",
      "U+11236", "U+11237", "U+1123E", "U+112DF", "U+112E3", "U+112E4",
      "U+112E5", "U+112E6", "U+112E7", "U+112E8", "U+112E9", "U+112EA",
      "U+11300", "U+11301", "U+1133B", "U+1133C", "U+11340", "U+11366",
      "U+11367", "U+11368", "U+11369", "U+1136A", "U+1136B", "U+1136C",
      "U+11370", "U+11371", "U+11372", "U+11373", "U+11374", "U+11438",
      "U+11439", "U+1143A", "U+1143B", "U+1143C", "U+1143D", "U+1143E",
      "U+1143F", "U+11442", "U+11443", "U+11444", "U+11446", "U+1145E",
      "U+114B3", "U+114B4", "U+114B5", "U+114B6", "U+114B7", "U+114B8",
      "U+114BA", "U+114BF", "U+114C0", "U+114C2", "U+114C3", "U+115B2",
      "U+115B3", "U+115B4", "U+115B5", "U+115BC", "U+115BD", "U+115BF",
      "U+115C0", "U+115DC", "U+115DD", "U+11633", "U+11634", "U+11635",
      "U+11636", "U+11637", "U+11638", "U+11639", "U+1163A", "U+1163D",
      "U+1163F", "U+11640", "U+116AB", "U+116AD", "U+116B0", "U+116B1",
      "U+116B2", "U+116B3", "U+116B4", "U+116B5", "U+116B7", "U+1171D",
      "U+1171E", "U+1171F", "U+11722", "U+11723", "U+11724", "U+11725",
      "U+11727", "U+11728", "U+11729", "U+1172A", "U+1172B", "U+1182F",
      "U+11830", "U+11831", "U+11832", "U+11833", "U+11834", "U+11835",
      "U+11836", "U+11837", "U+11839", "U+1183A", "U+1193B", "U+1193C",
      "U+1193E", "U+11943", "U+119D4", "U+119D5", "U+119D6", "U+119D7",
      "U+119DA", "U+119DB", "U+119E0", "U+11A01", "U+11A02", "U+11A03",
      "U+11A04", "U+11A05", "U+11A06", "U+11A07", "U+11A08", "U+11A09",
      "U+11A0A", "U+11A33", "U+11A34", "U+11A35", "U+11A36", "U+11A37",
      "U+11A38", "U+11A3B", "U+11A3C", "U+11A3D", "U+11A3E", "U+11A47",
      "U+11A51", "U+11A52", "U+11A53", "U+11A54", "U+11A55", "U+11A56",
      "U+11A59", "U+11A5A", "U+11A5B", "U+11A8A", "U+11A8B", "U+11A8C",
      "U+11A8D", "U+11A8E", "U+11A8F", "U+11A90", "U+11A91", "U+11A92",
      "U+11A93", "U+11A94", "U+11A95", "U+11A96", "U+11A98", "U+11A99",
      "U+11C30", "U+11C31", "U+11C32", "U+11C33", "U+11C34", "U+11C35",
      "U+11C36", "U+11C38", "U+11C39", "U+11C3A", "U+11C3B", "U+11C3C",
      "U+11C3D", "U+11C3F", "U+11C92", "U+11C93", "U+11C94", "U+11C95",
      "U+11C96", "U+11C97", "U+11C98", "U+11C99", "U+11C9A", "U+11C9B",
      "U+11C9C", "U+11C9D", "U+11C9E", "U+11C9F", "U+11CA0", "U+11CA1",
      "U+11CA2", "U+11CA3", "U+11CA4", "U+11CA5", "U+11CA6", "U+11CA7",
      "U+11CAA", "U+11CAB", "U+11CAC", "U+11CAD", "U+11CAE", "U+11CAF",
      "U+11CB0", "U+11CB2", "U+11CB3", "U+11CB5", "U+11CB6", "U+11D31",
      "U+11D32", "U+11D33", "U+11D34", "U+11D35", "U+11D36", "U+11D3A",
      "U+11D3C", "U+11D3D", "U+11D3F", "U+11D40", "U+11D41", "U+11D42",
      "U+11D43", "U+11D44", "U+11D45", "U+11D47", "U+11D90", "U+11D91",
      "U+11D95", "U+11D97", "U+11EF3", "U+11EF4", "U+13430", "U+13431",
      "U+13432", "U+13433", "U+13434", "U+13435", "U+13436", "U+13437",
      "U+13438", "U+16AF0", "U+16AF1", "U+16AF2", "U+16AF3", "U+16AF4",
      "U+16B30", "U+16B31", "U+16B32", "U+16B33", "U+16B34", "U+16B35",
      "U+16B36", "U+16B40", "U+16B41", "U+16B42", "U+16B43", "U+16F4F",
      "U+16F8F", "U+16F90", "U+16F91", "U+16F92", "U+16F93", "U+16F94",
      "U+16F95", "U+16F96", "U+16F97", "U+16F98", "U+16F99", "U+16F9A",
      "U+16F9B", "U+16F9C", "U+16F9D", "U+16F9E", "U+16F9F", "U+16FE0",
      "U+16FE1", "U+16FE3", "U+16FE4", "U+1AFF0", "U+1AFF1", "U+1AFF2",
      "U+1AFF3", "U+1AFF5", "U+1AFF6", "U+1AFF7", "U+1AFF8", "U+1AFF9",
      "U+1AFFA", "U+1AFFB", "U+1AFFD", "U+1AFFE", "U+1BC9D", "U+1BC9E",
      "U+1BCA0", "U+1BCA1", "U+1BCA2", "U+1BCA3", "U+1CF00", "U+1CF01",
      "U+1CF02", "U+1CF03", "U+1CF04", "U+1CF05", "U+1CF06", "U+1CF07",
      "U+1CF08", "U+1CF09", "U+1CF0A", "U+1CF0B", "U+1CF0C", "U+1CF0D",
      "U+1CF0E", "U+1CF0F", "U+1CF10", "U+1CF11", "U+1CF12", "U+1CF13",
      "U+1CF14", "U+1CF15", "U+1CF16", "U+1CF17", "U+1CF18", "U+1CF19",
      "U+1CF1A", "U+1CF1B", "U+1CF1C", "U+1CF1D", "U+1CF1E", "U+1CF1F",
      "U+1CF20", "U+1CF21", "U+1CF22", "U+1CF23", "U+1CF24", "U+1CF25",
      "U+1CF26", "U+1CF27", "U+1CF28", "U+1CF29", "U+1CF2A", "U+1CF2B",
      "U+1CF2C", "U+1CF2D", "U+1CF30", "U+1CF31", "U+1CF32", "U+1CF33",
      "U+1CF34", "U+1CF35", "U+1CF36", "U+1CF37", "U+1CF38", "U+1CF39",
      "U+1CF3A", "U+1CF3B", "U+1CF3C", "U+1CF3D", "U+1CF3E", "U+1CF3F",
      "U+1CF40", "U+1CF41", "U+1CF42", "U+1CF43", "U+1CF44", "U+1CF45",
      "U+1CF46", "U+1D167", "U+1D168", "U+1D169", "U+1D173", "U+1D174",
      "U+1D175", "U+1D176", "U+1D177", "U+1D178", "U+1D179", "U+1D17A",
      "U+1D17B", "U+1D17C", "U+1D17D", "U+1D17E", "U+1D17F", "U+1D180",
      "U+1D181", "U+1D182", "U+1D185", "U+1D186", "U+1D187", "U+1D188",
      "U+1D189", "U+1D18A", "U+1D18B", "U+1D1AA", "U+1D1AB", "U+1D1AC",
      "U+1D1AD", "U+1D242", "U+1D243", "U+1D244", "U+1DA00", "U+1DA01",
      "U+1DA02", "U+1DA03", "U+1DA04", "U+1DA05", "U+1DA06", "U+1DA07",
      "U+1DA08", "U+1DA09", "U+1DA0A", "U+1DA0B", "U+1DA0C", "U+1DA0D",
      "U+1DA0E", "U+1DA0F", "U+1DA10", "U+1DA11", "U+1DA12", "U+1DA13",
      "U+1DA14", "U+1DA15", "U+1DA16", "U+1DA17", "U+1DA18", "U+1DA19",
      "U+1DA1A", "U+1DA1B", "U+1DA1C", "U+1DA1D", "U+1DA1E", "U+1DA1F",
      "U+1DA20", "U+1DA21", "U+1DA22", "U+1DA23", "U+1DA24", "U+1DA25",
      "U+1DA26", "U+1DA27", "U+1DA28", "U+1DA29", "U+1DA2A", "U+1DA2B",
      "U+1DA2C", "U+1DA2D", "U+1DA2E", "U+1DA2F", "U+1DA30", "U+1DA31",
      "U+1DA32", "U+1DA33", "U+1DA34", "U+1DA35", "U+1DA36", "U+1DA3B",
      "U+1DA3C", "U+1DA3D", "U+1DA3E", "U+1DA3F", "U+1DA40", "U+1DA41",
      "U+1DA42", "U+1DA43", "U+1DA44", "U+1DA45", "U+1DA46", "U+1DA47",
      "U+1DA48", "U+1DA49", "U+1DA4A", "U+1DA4B", "U+1DA4C", "U+1DA4D",
      "U+1DA4E", "U+1DA4F", "U+1DA50", "U+1DA51", "U+1DA52", "U+1DA53",
      "U+1DA54", "U+1DA55", "U+1DA56", "U+1DA57", "U+1DA58", "U+1DA59",
      "U+1DA5A", "U+1DA5B", "U+1DA5C", "U+1DA5D", "U+1DA5E", "U+1DA5F",
      "U+1DA60", "U+1DA61", "U+1DA62", "U+1DA63", "U+1DA64", "U+1DA65",
      "U+1DA66", "U+1DA67", "U+1DA68", "U+1DA69", "U+1DA6A", "U+1DA6B",
      "U+1DA6C", "U+1DA75", "U+1DA84", "U+1DA9B", "U+1DA9C", "U+1DA9D",
      "U+1DA9E", "U+1DA9F", "U+1DAA1", "U+1DAA2", "U+1DAA3", "U+1DAA4",
      "U+1DAA5", "U+1DAA6", "U+1DAA7", "U+1DAA8", "U+1DAA9", "U+1DAAA",
      "U+1DAAB", "U+1DAAC", "U+1DAAD", "U+1DAAE", "U+1DAAF", "U+1E000",
      "U+1E001", "U+1E002", "U+1E003", "U+1E004", "U+1E005", "U+1E006",
      "U+1E008", "U+1E009", "U+1E00A", "U+1E00B", "U+1E00C", "U+1E00D",
      "U+1E00E", "U+1E00F", "U+1E010", "U+1E011", "U+1E012", "U+1E013",
      "U+1E014", "U+1E015", "U+1E016", "U+1E017", "U+1E018", "U+1E01B",
      "U+1E01C", "U+1E01D", "U+1E01E", "U+1E01F", "U+1E020", "U+1E021",
      "U+1E023", "U+1E024", "U+1E026", "U+1E027", "U+1E028", "U+1E029",
      "U+1E02A", "U+1E130", "U+1E131", "U+1E132", "U+1E133", "U+1E134",
      "U+1E135", "U+1E136", "U+1E137", "U+1E138", "U+1E139", "U+1E13A",
      "U+1E13B", "U+1E13C", "U+1E13D", "U+1E2AE", "U+1E2EC", "U+1E2ED",
      "U+1E2EE", "U+1E2EF", "U+1E8D0", "U+1E8D1", "U+1E8D2", "U+1E8D3",
      "U+1E8D4", "U+1E8D5", "U+1E8D6", "U+1E944", "U+1E945", "U+1E946",
      "U+1E947", "U+1E948", "U+1E949", "U+1E94A", "U+1E94B", "U+1F3FB",
      "U+1F3FC", "U+1F3FD", "U+1F3FE", "U+1F3FF", "U+E0001", "U+E0020",
      "U+E0021", "U+E0022", "U+E0023", "U+E0024", "U+E0025", "U+E0026",
      "U+E0027", "U+E0028", "U+E0029", "U+E002A", "U+E002B", "U+E002C",
      "U+E002D", "U+E002E", "U+E002F", "U+E0030", "U+E0031", "U+E0032",
      "U+E0033", "U+E0034", "U+E0035", "U+E0036", "U+E0037", "U+E0038",
      "U+E0039", "U+E003A", "U+E003B", "U+E003C", "U+E003D", "U+E003E",
      "U+E003F", "U+E0040", "U+E0041", "U+E0042", "U+E0043", "U+E0044",
      "U+E0045", "U+E0046", "U+E0047", "U+E0048", "U+E0049", "U+E004A",
      "U+E004B", "U+E004C", "U+E004D", "U+E004E", "U+E004F", "U+E0050",
      "U+E0051", "U+E0052", "U+E0053", "U+E0054", "U+E0055", "U+E0056",
      "U+E0057", "U+E0058", "U+E0059", "U+E005A", "U+E005B", "U+E005C",
      "U+E005D", "U+E005E", "U+E005F", "U+E0060", "U+E0061", "U+E0062",
      "U+E0063", "U+E0064", "U+E0065", "U+E0066", "U+E0067", "U+E0068",
      "U+E0069", "U+E006A", "U+E006B", "U+E006C", "U+E006D", "U+E006E",
      "U+E006F", "U+E0070", "U+E0071", "U+E0072", "U+E0073", "U+E0074",
      "U+E0075", "U+E0076", "U+E0077", "U+E0078", "U+E0079", "U+E007A",
      "U+E007B", "U+E007C", "U+E007D", "U+E007E", "U+E007F", "U+E0100",
      "U+E0101", "U+E0102", "U+E0103", "U+E0104", "U+E0105", "U+E0106",
      "U+E0107", "U+E0108", "U+E0109", "U+E010A", "U+E010B", "U+E010C",
      "U+E010D", "U+E010E", "U+E010F", "U+E0110", "U+E0111", "U+E0112",
      "U+E0113", "U+E0114", "U+E0115", "U+E0116", "U+E0117", "U+E0118",
      "U+E0119", "U+E011A", "U+E011B", "U+E011C", "U+E011D", "U+E011E",
      "U+E011F", "U+E0120", "U+E0121", "U+E0122", "U+E0123", "U+E0124",
      "U+E0125", "U+E0126", "U+E0127", "U+E0128", "U+E0129", "U+E012A",
      "U+E012B", "U+E012C", "U+E012D", "U+E012E", "U+E012F", "U+E0130",
      "U+E0131", "U+E0132", "U+E0133", "U+E0134", "U+E0135", "U+E0136",
      "U+E0137", "U+E0138", "U+E0139", "U+E013A", "U+E013B", "U+E013C",
      "U+E013D", "U+E013E", "U+E013F", "U+E0140", "U+E0141", "U+E0142",
      "U+E0143", "U+E0144", "U+E0145", "U+E0146", "U+E0147", "U+E0148",
      "U+E0149", "U+E014A", "U+E014B", "U+E014C", "U+E014D", "U+E014E",
      "U+E014F", "U+E0150", "U+E0151", "U+E0152", "U+E0153", "U+E0154",
      "U+E0155", "U+E0156", "U+E0157", "U+E0158", "U+E0159", "U+E015A",
      "U+E015B", "U+E015C", "U+E015D", "U+E015E", "U+E015F", "U+E0160",
      "U+E0161", "U+E0162", "U+E0163", "U+E0164", "U+E0165", "U+E0166",
      "U+E0167", "U+E0168", "U+E0169", "U+E016A", "U+E016B", "U+E016C",
      "U+E016D", "U+E016E", "U+E016F", "U+E0170", "U+E0171", "U+E0172",
      "U+E0173", "U+E0174", "U+E0175", "U+E0176", "U+E0177", "U+E0178",
      "U+E0179", "U+E017A", "U+E017B", "U+E017C", "U+E017D", "U+E017E",
      "U+E017F", "U+E0180", "U+E0181", "U+E0182", "U+E0183", "U+E0184",
      "U+E0185", "U+E0186", "U+E0187", "U+E0188", "U+E0189", "U+E018A",
      "U+E018B", "U+E018C", "U+E018D", "U+E018E", "U+E018F", "U+E0190",
      "U+E0191", "U+E0192", "U+E0193", "U+E0194", "U+E0195", "U+E0196",
      "U+E0197", "U+E0198", "U+E0199", "U+E019A", "U+E019B", "U+E019C",
      "U+E019D", "U+E019E", "U+E019F", "U+E01A0", "U+E01A1", "U+E01A2",
      "U+E01A3", "U+E01A4", "U+E01A5", "U+E01A6", "U+E01A7", "U+E01A8",
      "U+E01A9", "U+E01AA", "U+E01AB", "U+E01AC", "U+E01AD", "U+E01AE",
      "U+E01AF", "U+E01B0", "U+E01B1", "U+E01B2", "U+E01B3", "U+E01B4",
      "U+E01B5", "U+E01B6", "U+E01B7", "U+E01B8", "U+E01B9", "U+E01BA",
      "U+E01BB", "U+E01BC", "U+E01BD", "U+E01BE", "U+E01BF", "U+E01C0",
      "U+E01C1", "U+E01C2", "U+E01C3", "U+E01C4", "U+E01C5", "U+E01C6",
      "U+E01C7", "U+E01C8", "U+E01C9", "U+E01CA", "U+E01CB", "U+E01CC",
      "U+E01CD", "U+E01CE", "U+E01CF", "U+E01D0", "U+E01D1", "U+E01D2",
      "U+E01D3", "U+E01D4", "U+E01D5", "U+E01D6", "U+E01D7", "U+E01D8",
      "U+E01D9", "U+E01DA", "U+E01DB", "U+E01DC", "U+E01DD", "U+E01DE",
      "U+E01DF", "U+E01E0", "U+E01E1", "U+E01E2", "U+E01E3", "U+E01E4",
      "U+E01E5", "U+E01E6", "U+E01E7", "U+E01E8", "U+E01E9", "U+E01EA",
      "U+E01EB", "U+E01EC", "U+E01ED", "U+E01EE", "U+E01EF" }

\* Unicode's Cased characters that are not Case_Ignorable.
CasedChars ==
    { "A", "B", "C", "D", "E", "F", "G", "H", "I", "J", "K", "L", "M", "N",
      "O", "P", "Q", "R", "S", "T", "U", "V", "W", "X", "Y", "Z", "a", "b",
      "c", "d", "e", "f", "g", "h", "i", "j", "k", "l", "m", "n", "o", "p",
      "q", "r", "s", "t", "u", "v", "w", "x", "y", "z", "U+00AA", "U+00B5",
      "U+00BA", "U+00C0", "U+00C1", "U+00C2", "U+00C3", "U+00C4", "U+00C5",
      "U+00C6", "U+00C7", "U+00C8", "U+00C9", "U+00CA", "U+00CB", "U+00CC",
      "U+00CD", "U+00CE", "U+00CF", "U+00D0", "U+00D1", "U+00D2", "U+00D3",
      "U+00D4", "U+00D5", "U+00D6", "U+00D8", "U+00D9", "U+00DA", "U+00DB",
      "U+00DC", "U+00DD", "U+00DE", "U+00DF", "U+00E0", "U+00E1", "U+00E2",
      "U+00E3", "U+00E4", "U+00E5", "U+00E6", "U+00E7", "U+00E8", "U+00E9",
      "U+00EA", "U+00EB", "U+00EC", "U+00ED", "U+00EE", "U+00EF", "U+00F0",
      "U+00F1", "U+00F2", "U+00F3", "U+00F4", "U+00F5", "U+00F6", "U+00F8",
      "U+00F9", "U+00FA", "U+00FB", "U+00FC", "U+00FD", "U+00FE", "U+00FF",
      "U+0100", "U+0101", "U+0102", "U+0103", "U+0104", "U+0105", "U+0106",
      "U+0107", "U+0108", "U+0109", "U+010A", "U+010B", "U+010C", "U+010D",
      "U+010E", "U+010F", "U+0110", "U+0111", "U+0112", "U+0113", "U+0114",
      "U+0115", "U+0116", "U+0117", "U+0118", "U+0119", "U+011A", "U+011B",
      "U+011C", "U+011D", "U+011E", "U+011F", "U+0120", "U+0121", "U+0122",
      "U+0123", "U+0124", "U+0125", "U+0126", "U+0127", "U+0128", "U+0129",
      "U+012A", "U+012B", "U+012C", "U+012D", "U+012E", "U+012F", "U+0130",
      "U+0131", "U+0132", "U+0133", "U+0134", "U+0135", "U+0136", "U+0137",
      "U+0138", "U+0139", "U+013A", "U+013B", "U+013C", "U+013D", "U+013E",
      "U+013F", "U+0140", "U+0141", "U+0142", "U+0143", "U+0144", "U+0145",
      "U+0146", "U+0147", "U+0148", "U+0149", "U+014A", "U+014B", "U+014C",
      "U+014D", "U+014E", "U+014F", "U+0150", "U+0151", "U+0152", "U+0153",
      "U+0154", "U+0155", "U+0156", "U+0157", "U+0158", "U+0159", "U+015A",
      "U+015B", "U+015C", "U+015D", "U+015E", "U+015F", "U+0160", "U+0161",
      "U+0162", "U+0163", "U+0164", "U+0165", "U+0166", "U+0167", "U+0168",
      "U+0169", "U+016A", "U+016B", "U+016C", "U+016D", "U+016E", "U+016F",
      "U+0170", "U+0171", "U+0172", "U+0173", "U+0174", "U+0175", "U+0176",
      "U+0177", "U+0178", "U+0179", "U+017A", "U+017B", "U+017C", "U+017D",
      "U+017E", "U+017F", "U+0180", "U+0181", "U+0182", "U+0183", "U+0184",
      "U+0185", "U+0186", "U+0187", "U+0188", "U+0189", "U+018A", "U+018B",
      "U+018C", "U+018D", "U+018E", "U+018F", "U+0190", "U+0191", "U+0192",
      "U+0193", "U+0194", "U+0195", "U+0196", "U+0197", "U+0198", "U+0199",
      "U+019A", "U+019B", "U+019C", "U+019D", "U+019E", "U+019F", "U+01A0",
      "U+01A1", "U+01A2", "U+01A3", "U+01A4", "U+01A5", "U+01A6", "U+01A7",
      "U+01A8", "U+01A9", "U+01AA", "U+01AB", "U+01AC", "U+01AD", "U+01AE",
      "U+01AF", "U+01B0", "U+01B1", "U+01B2", "U+01B3", "U+01B4", "U+01B5",
      "U+01B6", "U+01B7", "U+01B8", "U+01B9", "U+01BA", "U+01BC", "U+01BD",
      "U+01BE", "U+01BF", "U+01C4", "U+01C5", "U+01C6", "U+01C7", "U+01C8",
      "U+01C9", "U+01CA", "U+01CB", "U+01CC", "U+01CD", "U+01CE", "U+01CF",
      "U+01D0", "U+01D1", "U+01D2", "U+01D3", "U+01D4", "U+01D5", "U+01D6",
      "U+01D7", "U+01D8", "U+01D9", "U+01DA", "U+01DB", "U+01DC", "U+01DD",
      "U+01DE", "U+01DF", "U+01E0", "U+01E1", "U+01E2", "U+01E3", "U+01E4",
      "U+01E5", "U+01E6", "U+01E7", "U+01E8", "U+01E9", "U+01EA", "U+01EB",
      "U+01EC", "U+01ED", "U+01EE", "U+01EF", "U+01F0", "U+01F1", "U+01F2",
      "U+01F3", "U+01F4", "U+01F5", "U+01F6", "U+01F7", "U+01F8", "U+01F9",
      "U+01FA", "U+01FB", "U+01FC", "U+01FD", "U+01FE", "U+01FF", "U+0200",
      "U+0201", "U+0202", "U+0203", "U+0204", "U+0205", "U+0206", "U+0207",
      "U+0208", "U+0209", "U+020A", "U+020B", "U+020C", "U+020D", "U+020E",
      "U+020F", "U+0210", "U+0211", "U+0212", "U+0213", "U+0214", "U+0215",
      "U+0216", "U+0217", "U+0218", "U+0219", "U+021A", "U+021B", "U+021C",
      "U+021D", "U+021E", "U+021F", "U+0220", "U+0221", "U+0222", "U+0223",
      "U+0224", "U+0225", "U+0226", "U+0227", "U+0228", "U+0229", "U+022A",
      "U+022B", "U+022C", "U+022D", "U+022E", "U+022F", "U+0230", "U+0231",
      "U+0232", "U+0233", "U+0234", "U+0235", "U+0236", "U+0237", "U+0238",
      "U+0239", "U+023A", "U+023B", "U+023C", "U+023D", "U+023E", "U+023F",
      "U+0240", "U+0241", "U+0242", "U+0243", "U+0244", "U+0245", "U+0246",
      "U+0247", "U+0248", "U+0249", "U+024A", "U+024B", "U+024C", "U+024D",
      "U+024E", "U+024F", "U+0250", "U+0251", "U+0252", "U+0253", "U+0254",
      "U+0255", "U+0256", "U+0257", "U+0258", "U+0259", "U+025A", "U+025B",
      "U+025C", "U+025D", "U+025E", "U+025F", "U+0260", "U+0261", "U+0262",
      "U+0263", "U+0264", "U+0265", "U+0266", "U+0267", "U+0268", "U+0269",
      "U+026A", "U+026B", "U+026C", "U+026D", "U+026E", "U+026F", "U+0270",
      "U+0271", "U+0272", "U+0273", "U+0274", "U+0275", "U+0276", "U+0277",
      "U+0278", "U+0279", "U+027A", "U+027B", "U+027C", "U+027D", "U+027E",
      "U+027F", "U+0280", "U+0281", "U+0282", "U+0283", "U+0284", "U+0285",
      "U+0286", "U+0287", "U+0288", "U+0289", "U+028A", "U+028B", "U+028C",
      "U+028D", "U+028E", "U+028F", "U+0290", "U+0291", "U+0292", "U+0293",
      "U+0295", "U+0296", "U+0297", "U+0298", "U+0299", "U+029A", "U+029B",
      "U+029C", "U+029D", "U+029E", "U+029F", "U+02A0", "U+02A1", "U+02A2",
      "U+02A3", "U+02A4", "U+02A5", "U+02A6", "U+02A7", "U+02A8", "U+02A9",
      "U+02AA", "U+02AB", "U+02AC", "U+02AD", "U+02AE", "U+02AF", "U+0370",
      "U+0371", "U+0372", "U+0373", "U+0376", "U+0377", "U+037B", "U+037C",
      "U+037D", "U+037F", "U+0386", "U+0388", "U+0389", "U+038A", "U+038C",
      "U+038E", "U+038F", "U+0390", "U+0391", "U+0392", "U+0393", "U+0394",
      "U+0395", "U+0396", "U+0397", "U+0398", "U+0399", "U+039A", "U+039B",
      "U+039C", "U+039D", "U+039E", "U+039F", "U+03A0", "U+03A1", "U+03A3",
      "U+03A4", "U+03A5", "U+03A6", "U+03A7", "U+03A8", "U+03A9", "U+03AA",
      "U+03AB", "U+03AC", "U+03AD", "U+03AE", "U+03AF", "U+03B0", "U+03B1",
      "U+03B2", "U+03B3", "U+03B4", "U+03B5", "U+03B6", "U+03B7", "U+03B8",
      "U+03B9", "U+03BA", "U+03BB", "U+03BC", "U+03BD", "U+03BE", "U+03BF",
      "U+03C0", "U+03C1", "U+03C2", "U+03C3", "U+03C4", "U+03C5", "U+03C6",
      "U+03C7", "U+03C8", "U+03C9", "U+03CA", "U+03CB", "U+03CC", "U+03CD",
      "U+03CE", "U+03CF", "U+03D0", "U+03D1", "U+03D2", "U+03D3", "U+03D4",
      "U+03D5", "U+03D6", "U+03D7", "U+03D8", "U+03D9", "U+03DA", "U+03DB",
      "U+03DC", "U+03DD", "U+03DE", "U+03DF", "U+03E0", "U+03E1", "U+03E2",
      "U+03E3", "U+03E4", "U+03E5", "U+03E6", "U+03E7", "U+03E8", "U+03E9",
      "U+03EA", "U+03EB", "U+03EC", "U+03ED", "U+03EE", "U+03EF", "U+03F0",
      "U+03F1", "U+03F2", "U+03F3", "U+03F4", "U+03F5", "U+03F7", "U+03F8",
      "U+03F9", "U+03FA", "U+03FB", "U+03FC", "U+03FD", "U+03FE", "U+03FF",
      "U+0400", "U+0401", "U+0402", "U+0403", "U+0404", "U+0405", "U+0406",
      "U+0407", "U+0408", "U+0409", "U+040A", "U+040B", "U+040C", "U+040D",
      "U+040E", "U+040F", "U+0410", "U+0411", "U+0412", "U+0413", "U+0414",
      "U+0415", "U+0416", "U+0417", "U+0418", "U+0419", "U+041A", "U+041B",
      "U+041C", "U+041D", "U+041E", "U+041F", "U+0420", "U+0421", "U+0422",
      "U+0423", "U+0424", "U+0425", "U+0426", "U+0427", "U+0428", "U+0429",
      "U+042A", "U+042B", "U+042C", "U+042D", "U+042E", "U+042F", "U+0430",
      "U+0431", "U+0432", "U+0433", "U+0434", "U+0435", "U+0436", "U+0437",
      "U+0438", "U+0439", "U+043A", "U+043B", "U+043C", "U+043D", "U+043E",
      "U+043F", "U+0440", "U+0441", "U+0442", "U+0443", "U+0444", "U+0445",
      "U+0446", "U+0447", "U+0448", "U+0449", "U+044A", "U+044B", "U+044C",
      "U+044D", "U+044E", "U+044F", "U+0450", "U+0451", "U+0452", "U+0453",
      "U+0454", "U+0455", "U+0456", "U+0457", "U+0458", "U+0459", "U+045A",
      "U+045B", "U+045C", "U+045D", "U+045E", "U+045F", "U+0460", "U+0461",
      "U+0462", "U+0463", "U+0464", "U+0465", "U+0466", "U+0467", "U+0468",
      "U+0469", "U+046A", "U+046B", "U+046C", "U+046D", "U+046E", "U+046F",
      "U+0470", "U+0471", "U+0472", "U+0473", "U+0474", "U+0475", "U+0476",
      "U+0477", "U+0478", "U+0479", "U+047A", "U+047B", "U+047C", "U+047D",
      "U+047E", "U+047F", "U+0480", "U+0481", "U+048A", "U+048B", "U+048C",
      "U+048D", "U+048E", "U+048F", "U+0490", "U+0491", "U+0492", "U+0493",
      "U+0494", "U+0495", "U+0496", "U+0497", "U+0498", "U+0499", "U+049A",
      "U+049B", "U+049C", "U+049D", "U+049E", "U+049F", "U+04A0", "U+04A1",
      "U+04A2", "U+04A3", "U+04A4", "U+04A5", "U+04A6", "U+04A7", "U+04A8",
      "U+04A9", "U+04AA", "U+04AB", "U+04AC", "U+04AD", "U+04AE", "U+04AF",
      "U+04B0", "U+04B1", "U+04B2", "U+04B3", "U+04B4", "U+04B5", "U+04B6",
      "U+04B7", "U+04B8", "U+04B9", "U+04BA", "U+04BB", "U+04BC", "U+04BD",
      "U+04BE", "U+04BF", "U+04C0", "U+04C1", "U+04C2", "U+04C3", "U+04C4",
      "U+04C5", "U+04C6", "U+04C7", "U+04C8", "U+04C9", "U+04CA", "U+04CB",
      "U+04CC", "U+04CD", "U+04CE", "U+04CF", "U+04D0", "U+04D1", "U+04D2",
      "U+04D3", "U+04D4", "U+04D5", "U+04D6", "U+04D7", "U+04D8", "U+04D9",
      "U+04DA", "U+04DB", "U+04DC", "U+04DD", "U+04DE", "U+04DF", "U+04E0",
      "U+04E1", "U+04E2", "U+04E3", "U+04E4", "U+04E5", "U+04E6", "U+04E7",
      "U+04E8", "U+04E9", "U+04EA", "U+04EB", "U+04EC", "U+04ED", "U+04EE",
      "U+04EF", "U+04F0", "U+04F1", "U+04F2", "U+04F3", "U+04F4", "U+04F5",
      "U+04F6", "U+04F7", "U+04F8", "U+04F9", "U+04FA", "U+04FB", "U+04FC",
      "U+04FD", "U+04FE", "U+04FF", "U+0500", "U+0501", "U+0502", "U+0503",
      "U+0504", "U+0505", "U+0506", "U+0507", "U+0508", "U+0509", "U+050A",
      "U+050B", "U+050C", "U+050D", "U+050E", "U+050F", "U+0510", "U+0511",
      "U+0512", "U+0513", "U+0514", "U+0515", "U+0516", "U+0517", "U+0518",
      "U+0519", "U+051A", "U+051B", "U+051C", "U+051D", "U+051E", "U+051F",
      "U+0520", "U+0521", "U+0522", "U+0523", "U+0524", "U+0525", "U+0526",
      "U+0527", "U+0528", "U+0529", "U+052A", "U+052B", "U+052C", "U+052D",
      "U+052E", "U+052F", "U+0531", "U+0532", "U+0533", "U+0534", "U+0535",
      "U+0536", "U+0537", "U+0538", "U+0539", "U+053A", "U+053B", "U+053C",
      "U+053D", "U+053E", "U+053F", "U+0540", "U+0541", "U+0542", "U+0543",
      "U+0544", "U+0545", "U+0546", "U+0547", "U+0548", "U+0549", "U+054A",
      "U+054B", "U+054C", "U+054D", "U+054E", "U+054F", "U+0550", "U+0551",
      "U+0552", "U+0553", "U+0554", "U+0555", "U+0556", "U+0560", "U+0561",
      "U+0562", "U+0563", "U+0564", "U+0565", "U+0566", "U+0567", "U+0568",
      "U+0569", "U+056A", "U+056B", "U+056C", "U+056D", "U+056E", "U+056F",
      "U+0570", "U+0571", "U+0572", "U+0573", "U+0574", "U+0575", "U+0576",
      "U+0577", "U+0578", "U+0579", "U+057A", "U+057B", "U+057C", "U+057D",
      "U+057E", "U+057F", "U+0580", "U+0581", "U+0582", "U+0583", "U+0584",
      "U+0585", "U+0586", "U+0587", "U+0588", "U+10A0", "U+10A1", "U+10A2",
      "U+10A3", "U+10A4", "U+10A5", "U+10A6", "U+10A7", "U+10A8", "U+10A9",
      "U+10AA", "U+10AB", "U+10AC", "U+10AD", "U+10AE", "U+10AF", "U+10B0",
      "U+10B1", "U+10B2", "U+10B3", "U+10B4", "U+10B5", "U+10B6", "U+10B7",
      "U+10B8", "U+10B9", "U+10BA", "U+10BB", "U+10BC", "U+10BD", "U+10BE",
      "U+10BF", "U+10C0", "U+10C1", "U+10C2", "U+10C3", "U+10C4", "U+10C5",
      "U+10C7", "U+10CD", "U+10D0", "U+10D1", "U+10D2", "U+10D3", "U+10D4",
      "U+10D5", "U+10D6", "U+10D7", "U+10D8", "U+10D9", "U+10DA", "U+10DB",
      "U+10DC", "U+10DD", "U+10DE", "U+10DF", "U+10E0", "U+10E1", "U+10E2",
      "U+10E3", "U+10E4", "U+10E5", "U+10E6", "U+10E7", "U+10E8", "U+10E9",
      "U+10EA", "U+10EB", "U+10EC", "U+10ED", "U+10EE", "U+10EF", "U+10F0",
      "U+10F1", "U+10F2", "U+10F3", "U+10F4", "U+10F5", "U+10F6", "U+10F7",
      "U+10F8", "U+10F9", "U+10FA", "U+10FD", "U+10FE", "U+10FF", "U+13A0",
      "U+13A1", "U+13A2", "U+13A3", "U+13A4", "U+13A5", "U+13A6", "U+13A7",
      "U+13A8", "U+13A9", "U+13AA", "U+13AB", "U+13AC", "U+13AD", "U+13AE",
      "U+13AF", "U+13B0", "U+13B1", "U+13B2", "U+13B3", "U+13B4", "U+13B5",
      "U+13B6", "U+13B7", "U+13B8", "U+13B9", "U+13BA", "U+13BB", "U+13BC",
      "U+13BD", "U+13BE", "U+13BF", "U+13C0", "U+13C1", "U+13C2", "U+13C3",
      "U+13C4", "U+13C5", "U+13C6", "U+13C7", "U+13C8", "U+13C9", "U+13CA",
      "U+13CB", "U+13CC", "U+13CD", "U+13CE", "U+13CF", "U+13D0", "U+13D1",
      "U+13D2", "U+13D3", "U+13D4", "U+13D5", "U+13D6", "U+13D7", "U+13D8",
      "U+13D9", "U+13DA", "U+13DB", "U+13DC", "U+13DD", "U+13DE", "U+13DF",
      "U+13E0", "U+13E1", "U+13E2", "U+13E3", "U+13E4", "U+13E5", "U+13E6",
      "U+13E7", "U+13E8", "U+13E9", "U+13EA", "U+13EB", "U+13EC", "U+13ED",
      "U+13EE", "U+13EF", "U+13F0", "U+13F1", "U+13F2", "U+13F3", "U+13F4",
      "U+13F5", "U+13F8", "U+13F9", "U+13FA", "U+13FB", "U+13FC", "U+13FD",
      "U+1C80", "U+1C81", "U+1C82", "U+1C83", "U+1C84", "U+1C85", "U+1C86",
      "U+1C87", "U+1C88", "U+1C90", "U+1C91", "U+1C92", "U+1C93", "U+1C94",
      "U+1C95", "U+1C96", "U+1C97", "U+1C98", "U+1C99", "U+1C9A", "U+1C9B",
      "U+1C9C", "U+1C9D", "U+1C9E", "U+1C9F", "U+1CA0", "U+1CA1", "U+1CA2",
      "U+1CA3", "U+1CA4", "U+1CA5", "U+1CA6", "U+1CA7", "U+1CA8", "U+1CA9",
      "U+1CAA", "U+1CAB", "U+1CAC", "U+1CAD", "U+1CAE", "U+1CAF", "U+1CB0",
      "U+1CB1", "U+1CB2", "U+1CB3", "U+1CB4", "U+1CB5", "U+1CB6", "U+1CB7",
      "U+1CB8", "U+1CB9", "U+1CBA", "U+1CBD", "U+1CBE", "U+1CBF", "U+1D00",
      "U+1D01", "U+1D02", "U+1D03", "U+1D04", "U+1D05", "U+1D06", "U+1D07",
      "U+1D08", "U+1D09", "U+1D0A", "U+1D0B", "U+1D0C", "U+1D0D", "U+1D0E",
      "U+1D0F", "U+1D10", "U+1D11", "U+1D12", "U+1D13", "U+1D14", "U+1D15",
      "U+1D16", "U+1D17", "U+1D18", "U+1D19", "U+1D1A", "U+1D1B", "U+1D1C",
      "U+1D1D", "U+1D1E", "U+1D1F", "U+1D20", "U+1D21", "U+1D22", "U+1D23",
      "U+1D24", "U+1D25", "U+1D26", "U+1D27", "U+1D28", "U+1D29", "U+1D2A",
      "U+1D2B", "U+1D6B", "U+1D6C", "U+1D6D", "U+1D6E", "U+1D6F", "U+1D70",
      "U+1D71", "U+1D72", "U+1D73", "U+1D74", "U+1D75", "U+1D76", "U+1D77",
      "U+1D79", "U+1D7A", "U+1D7B", "U+1D7C", "U+1D7D", "U+1D7E", "U+1D7F",
      "U+1D80", "U+1D81", "U+1D82", "U+1D83", "U+1D84", "U+1D85", "U+1D86",
      "U+1D87", "U+1D88", "U+1D89", "U+1D8A", "U+1D8B", "U+1D8C", "U+1D8D",
      "U+1D8E", "U+1D8F", "U+1D90", "U+1D91", "U+1D92", "U+1D93", "U+1D94",
      "U+1D95", "U+1D96", "U+1D97", "U+1D98", "U+1D99", "U+1D9A", "U+1E00",
      "U+1E01", "U+1E02", "U+1E03", "U+1E04", "U+1E05", "U+1E06", "U+1E07",
      "U+1E08", "U+1E09", "U+1E0A", "U+1E0B", "U+1E0C", "U+1E0D", "U+1E0E",
      "U+1E0F", "U+1E10", "U+1E11", "U+1E12", "U+1E13", "U+1E14", "U+1E15",
      "U+1E16", "U+1E17", "U+1E18", "U+1E19", "U+1E1A", "U+1E1B", "U+1E1C",
      "U+1E1D", "U+1E1E", "U+1E1F", "U+1E20", "U+1E21", "U+1E22", "U+1E23",
      "U+1E24", "U+1E25", "U+1E26", "U+1E27", "U+1E28", "U+1E29", "U+1E2A",
      "U+1E2B", "U+1E2C", "U+1E2D", "U+1E2E", "U+1E2F", "U+1E30", "U+1E31",
      "U+1E32", "U+1E33", "U+1E34", "U+1E35", "U+1E36", "U+1E37", "U+1E38",
      "U+1E39", "U+1E3A", "U+1E3B", "U+1E3C", "U+1E3D", "U+1E3E", "U+1E3F",
      "U+1E40", "U+1E41", "U+1E42", "U+1E43", "U+1E44", "U+1E45", "U+1E46",
      "U+1E47", "U+1E48", "U+1E49", "U+1E4A", "U+1E4B", "U+1E4C", "U+1E4D",
      "U+1E4E", "U+1E4F", "U+1E50", "U+1E51", "U+1E52", "U+1E53", "U+1E54",
      "U+1E55", "U+1E56", "U+1E57", "U+1E58", "U+1E59", "U+1E5A", "U+1E5B",
      "U+1E5C", "U+1E5D", "U+1E5E", "U+1E5F", "U+1E60", "U+1E61", "U+1E62",
      "U+1E63", "U+1E64", "U+1E65", "U+1E66", "U+1E67", "U+1E68", "U+1E69",
      "U+1E6A", "U+1E6B", "U+1E6C", "U+1E6D", "U+1E6E", "U+1E6F", "U+1E70",
      "U+1E71", "U+1E72", "U+1E73", "U+1E74", "U+1E75", "U+1E76", "U+1E77",
      "U+1E78", "U+1E79", "U+1E7A", "U+1E7B", "U+1E7C", "U+1E7D", "U+1E7E",
      "U+1E7F", "U+1E80", "U+1E81", "U+1E82", "U+1E83", "U+1E84", "U+1E85",
      "U+1E86", "U+1E87", "U+1E88", "U+1E89", "U+1E8A", "U+1E8B", "U+1E8C",
      "U+1E8D", "U+1E8E", "U+1E8F", "U+1E90", "U+1E91", "U+1E92", "U+1E93",
      "U+1E94", "U+1E95", "U+1E96", "U+1E97", "U+1E98", "U+1E99", "U+1E9A",
      "U+1E9B", "U+1E9C", "U+1E9D", "U+1E9E", "U+1E9F", "U+1EA0", "U+1EA1",
      "U+1EA2", "U+1EA3", "U+1EA4", "U+1EA5", "U+1EA6", "U+1EA7", "U+1EA8",
      "U+1EA9", "U+1EAA", "U+1EAB", "U+1EAC", "U+1EAD", "U+1EAE", "U+1EAF",
      "U+1EB0", "U+1EB1", "U+1EB2", "U+1EB3", "U+1EB4", "U+1EB5", "U+1EB6",
      "U+1EB7", "U+1EB8", "U+1EB9", "U+1EBA", "U+1EBB", "U+1EBC", "U+1EBD",
      "U+1EBE", "U+1EBF", "U+1EC0", "U+1EC1", "U+1EC2", "U+1EC3", "U+1EC4",
      "U+1EC5", "U+1EC6", "U+1EC7", "U+1EC8", "U+1EC9", "U+1ECA", "U+1ECB",
      "U+1ECC", "U+1ECD", "U+1ECE", "U+1ECF", "U+1ED0", "U+1ED1", "U+1ED2",
      "U+1ED3", "U+1ED4", "U+1ED5", "U+1ED6", "U+1ED7", "U+1ED8", "U+1ED9",
      "U+1EDA", "U+1EDB", "U+1EDC", "U+1EDD", "U+1EDE", "U+1EDF", "U+1EE0",
      "U+1EE1", "U+1EE2", "U+1EE3", "U+1EE4", "U+1EE5", "U+1EE6", "U+1EE7",
      "U+1EE8", "U+1EE9", "U+1EEA", "U+1EEB", "U+1EEC", "U+1EED", "U+1EEE",
      "U+1EEF", "U+1EF0", "U+1EF1", "U+1EF2", "U+1EF3", "U+1EF4", "U+1EF5",
      "U+1EF6", "U+1EF7", "U+1EF8", "U+1EF9", "U+1EFA", "U+1EFB", "U+1EFC",
      "U+1EFD", "U+1EFE", "U+1EFF", "U+1F00", "U+1F01", "U+1F02", "U+1F03",
      "U+1F04", "U+1F05", "U+1F06", "U+1F07", "U+1F08", "U+1F09", "U+1F0A",
      "U+1F0B", "U+1F0C", "U+1F0D", "U+1F0E", "U+1F0F", "U+1F10", "U+1F11",
      "U+1F12", "U+1F13", "U+1F14", "U+1F15", "U+1F18", "U+1F19", "U+1F1A",
      "U+1F1B", "U+1F1C", "U+1F1D", "U+1F20", "U+1F21", "U+1F22", "U+1F23",
      "U+1F24", "U+1F25", "U+1F26", "U+1F27", "U+1F28", "U+1F29", "U+1F2A",
      "U+1F2B", "U+1F2C", "U+1F2D", "U+1F2E", "U+1F2F", "U+1F30", "U+1F31",
      "U+1F32", "U+1F33", "U+1F34", "U+1F35", "U+1F36", "U+1F37", "U+1F38",
      "U+1F39", "U+1F3A", "U+1F3B", "U+1F3C", "U+1F3D", "U+1F3E", "U+1F3F",
      "U+1F40", "U+1F41", "U+1F42", "U+1F43", "U+1F44", "U+1F45", "U+1F48",
      "U+1F49", "U+1F4A", "U+1F4B", "U+1F4C", "U+1F4D", "U+1F50", "U+1F51",
      "U+1F52", "U+1F53", "U+1F54", "U+1F55", "U+1F56", "U+1F57", "U+1F59",
      "U+1F5B", "U+1F5D", "U+1F5F", "U+1F60", "U+1F61", "U+1F62", "U+1F63",
      "U+1F64", "U+1F65", "U+1F66", "U+1F67", "U+1F68", "U+1F69", "U+1F6A",
      "U+1F6B", "U+1F6C", "U+1F6D", "U+1F6E", "U+1F6F", "U+1F70", "U+1F71",
      "U+1F72", "U+1F73", "U+1F74", "U+1F75", "U+1F76", "U+1F77", "U+1F78",
      "U+1F79", "U+1F7A", "U+1F7B", "U+1F7C", "U+1F7D", "U+1F80", "U+1F81",
      "U+1F82", "U+1F83", "U+1F84", "U+1F85", "U+1F86", "U+1F87", "U+1F88",
      "U+1F89", "U+1F8A", "U+1F8B", "U+1F8C", "U+1F8D", "U+1F8E", "U+1F8F",
      "U+1F90", "U+1F91", "U+1F92", "U+1F93", "U+1F94", "U+1F95", "U+1F96",
      "U+1F97", "U+1F98", "U+1F99", "U+1F9A", "U+1F9B", "U+1F9C", "U+1F9D",
      "U+1F9E", "U+1F9F", "U+1FA0", "U+1FA1", "U+1FA2", "U+1FA3", "U+1FA4",
      "U+1FA5", "U+1FA6", "U+1FA7", "U+1FA8", "U+1FA9", "U+1FAA", "U+1FAB",
      "U+1FAC", "U+1FAD", "U+1FAE", "U+1FAF", "U+1FB0", "U+1FB1", "U+1FB2",
      "U+1FB3", "U+1FB4", "U+1FB6", "U+1FB7", "U+1FB8", "U+1FB9", "U+1FBA",
      "U+1FBB", "U+1FBC", "U+1FBE", "U+1FC2", "U+1FC3", "U+1FC4", "U+1FC6",
      "U+1FC7", "U+1FC8", "U+1FC9", "U+1FCA", "U+1FCB", "U+1FCC", "U+1FD0",
      "U+1FD1", "U+1FD2", "U+1FD3", "U+1FD6", "U+1FD7", "U+1FD8", "U+1FD9",
      "U+1FDA", "U+1FDB", "U+1FE0", "U+1FE1", "U+1FE2", "U+1FE3", "U+1FE4",
      "U+1FE5", "U+1FE6", "U+1FE7", "U+1FE8", "U+1FE9", "U+1FEA", "U+1FEB",
      "U+1FEC", "U+1FF2", "U+1FF3", "U+1FF4", "U+1FF6", "U+1FF7", "U+1FF8",
      "U+1FF9", "U+1FFA", "U+1FFB", "U+1FFC", "U+2102", "U+2107", "U+210A",
      "U+210B", "U+210C", "U+210D", "U+210E", "U+210F", "U+2110", "U+2111",
      "U+2112", "U+2113", "U+2115", "U+2119", "U+211A", "U+211B", "U+211C",
      "U+211D", "U+2124", "U+2126", "U+2128", "U+212A", "U+212B", "U+212C",
      "U+212D", "U+212F", "U+2130", "U+2131", "U+2132", "U+2133", "U+2134",
      "U+2139", "U+213C", "U+213D", "U+213E", "U+213F", "U+2145", "U+2146",
      "U+2147", "U+2148", "U+2149", "U+214E", "U+2160", "U+2161", "U+2162",
      "U+2163", "U+2164", "U+2165", "U+2166", "U+2167", "U+2168", "U+2169",
      "U+216A", "U+216B", "U+216C", "U+216D", "U+216E", "U+216F", "U+2170",
      "U+2171", "U+2172", "U+2173", "U+2174", "U+2175", "U+2176", "U+2177",
      "U+2178", "U+2179", "U+217A", "U+217B", "U+217C", "U+217D", "U+217E",
      "U+217F", "U+2183", "U+2184", "U+24B6", "U+24B7", "U+24B8", "U+24B9",
      "U+24BA", "U+24BB", "U+24BC", "U+24BD", "U+24BE", "U+24BF", "U+24C0",
      "U+24C1", "U+24C2", "U+24C3", "U+24C4", "U+24C5", "U+24C6", "U+24C7",
      "U+24C8", "U+24C9", "U+24CA", "U+24CB", "U+24CC", "U+24CD", "U+24CE",
      "U+24CF", "U+24D0", "U+24D1", "U+24D2", "U+24D3", "U+24D4", "U+24D5",
      "U+24D6", "U+24D7", "U+24D8", "U+24D9", "U+24DA", "U+24DB", "U+24DC",
      "U+24DD", "U+24DE", "U+24DF", "U+24E0", "U+24E1", "U+24E2", "U+24E3",
      "U+24E4", "U+24E5", "U+24E6", "U+24E7", "U+24E8", "U+24E9", "U+2C00",
      "U+2C01", "U+2C02", "U+2C03", "U+2C04", "U+2C05", "U+2C06", "U+2C07",
      "U+2C08", "U+2C09", "U+2C0A", "U+2C0B", "U+2C0C", "U+2C0D", "U+2C0E",
      "U+2C0F", "U+2C10", "U+2C11", "U+2C12", "U+2C13", "U+2C14", "U+2C15",
      "U+2C16", "U+2C17", "U+2C18", "U+2C19", "U+2C1A", "U+2C1B", "U+2C1C",
      "U+2C1D", "U+2C1E", "U+2C1F", "U+2C20", "U+2C21", "U+2C22", "U+2C23",
      "U+2C24", "U+2C25", "U+2C26", "U+2C27", "U+2C28", "U+2C29", "U+2C2A",
      "U+2C2B", "U+2C2C", "U+2C2D", "U+2C2E", "U+2C2F", "U+2C30", "U+2C31",
      "U+2C32", "U+2C33", "U+2C34", "U+2C35", "U+2C36", "U+2C37", "U+2C38",
      "U+2C39", "U+2C3A", "U+2C3B", "U+2C3C", "U+2C3D", "U+2C3E", "U+2C3F",
      "U+2C40", "U+2C41", "U+2C42", "U+2C43", "U+2C44", "U+2C45", "U+2C46",
      "U+2C47", "U+2C48", "U+2C49", "U+2C4A", "U+2C4B", "U+2C4C", "U+2C4D",
      "U+2C4E", "U+2C4F", "U+2C50", "U+2C51", "U+2C52", "U+2C53", "U+2C54",
      "U+2C55", "U+2C56", "U+2C57", "U+2C58", "U+2C59", "U+2C5A", "U+2C5B",
      "U+2C5C", "U+2C5D", "U+2C5E", "U+2C5F", "U+2C60", "U+2C61", "U+2C62",
      "U+2C63", "U+2C64", "U+2C65", "U+2C66", "U+2C67", "U+2C68", "U+2C69",
      "U+2C6A", "U+2C6B", "U+2C6C", "U+2C6D", "U+2C6E", "U+2C6F", "U+2C70",
      "U+2C71", "U+2C72", "U+2C73", "U+2C74", "U+2C75", "U+2C76", "U+2C77",
      "U+2C78", "U+2C79", "U+2C7A", "U+2C7B", "U+2C7E", "U+2C7F", "U+2C80",
      "U+2C81", "U+2C82", "U+2C83", "U+2C84", "U+2C85", "U+2C86", "U+2C87",
      "U+2C88", "U+2C89", "U+2C8A", "U+2C8B", "U+2C8C", "U+2C8D", "U+2C8E",
      "U+2C8F", "U+2C90", "U+2C91", "U+2C92", "U+2C93", "U+2C94", "U+2C95",
      "U+2C96", "U+2C97", "U+2C98", "U+2C99", "U+2C9A", "U+2C9B", "U+2C9C",
      "U+2C9D", "U+2C9E", "U+2C9F", "U+2CA0", "U+2CA1", "U+2CA2", "U+2CA3",
      "U+2CA4", "U+2CA5", "U+2CA6", "U+2CA7", "U+2CA8", "U+2CA9", "U+2CAA",
      "U+2CAB", "U+2CAC", "U+2CAD", "U+2CAE", "U+2CAF", "U+2CB0", "U+2CB1",
      "U+2CB2", "U+2CB3", "U+2CB4", "U+2CB5", "U+2CB6", "U+2CB7", "U+2CB8",
      "U+2CB9", "U+2CBA", "U+2CBB", "U+2CBC", "U+2CBD", "U+2CBE", "U+2CBF",
      "U+2CC0", "U+2CC1", "U+2CC2", "U+2CC3", "U+2CC4", "U+2CC5", "U+2CC6",
      "U+2CC7", "U+2CC8", "U+2CC9", "U+2CCA", "U+2CCB", "U+2CCC", "U+2CCD",
      "U+2CCE", "U+2CCF", "U+2CD0", "U+2CD1", "U+2CD2", "U+2CD3", "U+2CD4",
      "U+2CD5", "U+2CD6", "U+2CD7", "U+2CD8", "U+2CD9", "U+2CDA", "U+2CDB",
      "U+2CDC", "U+2CDD", "U+2CDE", "U+2CDF", "U+2CE0", "U+2CE1", "U+2CE2",
      "U+2CE3", "U+2CE4", "U+2CEB", "U+2CEC", "U+2CED", "U+2CEE", "U+2CF2",
      "U+2CF3", "U+2D00", "U+2D01", "U+2D02", "U+2D03", "U+2D04", "U+2D05",
      "U+2D06", "U+2D07", "U+2D08", "U+2D09", "U+2D0A", "U+2D0B", "U+2D0C",
      "U+2D0D", "U+2D0E", "U+2D0F", "U+2D10", "U+2D11", "U+2D12", "U+2D13",
      "U+2D14", "U+2D15", "U+2D16", "U+2D17", "U+2D18", "U+2D19", "U+2D1A",
      "U+2D1B", "U+2D1C", "U+2D1D", "U+2D1E", "U+2D1F", "U+2D20", "U+2D21",
      "U+2D22", "U+2D23", "U+2D24", "U+2D25", "U+2D27", "U+2D2D", "U+A640",
      "U+A641", "U+A642", "U+A643", "U+A644", "U+A645", "U+A646", "U+A647",
      "U+A648", "U+A649", "U+A64A", "U+A64B", "U+A64C", "U+A64D", "U+A64E",
      "U+A64F", "U+A650", "U+A651", "U+A652", "U+A653", "U+A654", "U+A655",
      "U+A656", "U+A657", "U+A658", "U+A659", "U+A65A", "U+A65B", "U+A65C",
      "U+A65D", "U+A65E", "U+A65F", "U+A660", "U+A661", "U+A662", "U+A663",
      "U+A664", "U+A665", "U+A666", "U+A667", "U+A668", "U+A669", "U+A66A",
      "U+A66B", "U+A66C", "U+A66D", "U+A680", "U+A681", "U+A682", "U+A683",
      "U+A684", "U+A685", "U+A686", "U+A687", "U+A688", "U+A689", "U+A68A",
      "U+A68B", "U+A68C", "U+A68D", "U+A68E", "U+A68F", "U+A690", "U+A691",
      "U+A692", "U+A693", "U+A694", "U+A695", "U+A696", "U+A697", "U+A698",
      "U+A699", "U+A69A", "U+A69B", "U+A722", "U+A723", "U+A724", "U+A725",
      "U+A726", "U+A727", "U+A728", "U+A729", "U+A72A", "U+A72B", "U+A72C",
      "U+A72D", "U+A72E", "U+A72F", "U+A730", "U+A731", "U+A732", "U+A733",
      "U+A734", "U+A735", "U+A736", "U+A737", "U+A738", "U+A739", "U+A73A",
      "U+A73B", "U+A73C", "U+A73D", "U+A73E", "U+A73F", "U+A740", "U+A741",
      "U+A742", "U+A743", "U+A744", "U+A745", "U+A746", "U+A747", "U+A748",
      "U+A749", "U+A74A", "U+A74B", "U+A74C", "U+A74D", "U+A74E", "U+A74F",
      "U+A750", "U+A751", "U+A752", "U+A753", "U+A754", "U+A755", "U+A756",
      "U+A757", "U+A758", "U+A759", "U+A75A", "U+A75B", "U+A75C", "U+A75D",
      "U+A75E", "U+A75F", "U+A760", "U+A761", "U+A762", "U+A763", "U+A764",
      "U+A765", "U+A766", "U+A767", "U+A768", "U+A769", "U+A76A", "U+A76B",
      "U+A76C", "U+A76D", "U+A76E", "U+A76F", "U+A771", "U+A772", "U+A773",
      "U+A774", "U+A775", "U+A776", "U+A777", "U+A778", "U+A779", "U+A77A",
      "U+A77B", "U+A77C", "U+A77D", "U+A77E", "U+A77F", "U+A780", "U+A781",
      "U+A782", "U+A783", "U+A784", "U+A785", "U+A786", "U+A787", "U+A78B",
      "U+A78C", "U+A78D", "U+A78E", "U+A790", "U+A791", "U+A792", "U+A793",
      "U+A794", "U+A795", "U+A796", "U+A797", "U+A798", "U+A799", "U+A79A",
      "U+A79B", "U+A79C", "U+A79D", "U+A79E", "U+A79F", "U+A7A0", "U+A7A1",
      "U+A7A2", "U+A7A3", "U+A7A4", "U+A7A5", "U+A7A6", "U+A7A7", "U+A7A8",
      "U+A7A9", "U+A7AA", "U+A7AB", "U+A7AC", "U+A7AD", "U+A7AE", "U+A7AF",
      "U+A7B0", "U+A7B1", "U+A7B2", "U+A7B3", "U+A7B4", "U+A7B5", "U+A7B6",
      "U+A7B7", "U+A7B8", "U+A7B9", "U+A7BA", "U+A7BB", "U+A7BC", "U+A7BD",
      "U+A7BE", "U+A7BF", "U+A7C0", "U+A7C1", "U+A7C2", "U+A7C3", "U+A7C4",
      "U+A7C5", "U+A7C6", "U+A7C7", "U+A7C8", "U+A7C9", "U+A7CA", "U+A7D0",
      "U+A7D1", "U+A7D3", "U+A7D5", "U+A7D6", "U+A7D7", "U+A7D8", "U+A7D9",
      "U+A7F5", "U+A7F6", "U+A7FA", "U+AB30", "U+AB31", "U+AB32", "U+AB33",
      "U+AB34", "U+AB35", "U+AB36", "U+AB37", "U+AB38", "U+AB39", "U+AB3A",
      "U+AB3B", "U+AB3C", "U+AB3D", "U+AB3E", "U+AB3F", "U+AB40", "U+AB41",
      "U+AB42", "U+AB43", "U+AB44", "U+AB45", "U+AB46", "U+AB47", "U+AB48",
      "U+AB49", "U+AB4A", "U+AB4B", "U+AB4C", "U+AB4D", "U+AB4E", "U+AB4F",
      "U+AB50", "U+AB51", "U+AB52", "U+AB53", "U+AB54", "U+AB55", "U+AB56",
      "U+AB57", "U+AB58", "U+AB59", "U+AB5A", "U+AB60", "U+AB61", "U+AB62",
      "U+AB63", "U+AB64", "U+AB65", "U+AB66", "U+AB67", "U+AB68", "U+AB70",
      "U+AB71", "U+AB72", "U+AB73", "U+AB74", "U+AB75", "U+AB76", "U+AB77",
      "U+AB78", "U+AB79", "U+AB7A", "U+AB7B", "U+AB7C", "U+AB7D", "U+AB7E",
      "U+AB7F", "U+AB80", "U+AB81", "U+AB82", "U+AB83", "U+AB84", "U+AB85",
      "U+AB86", "U+AB87", "U+AB88", "U+AB89", "U+AB8A", "U+AB8B", "U+AB8C",
      "U+AB8D", "U+AB8E", "U+AB8F", "U+AB90", "U+AB91", "U+AB92", "U+AB93",
      "U+AB94", "U+AB95", "U+AB96", "U+AB97", "U+AB98", "U+AB99", "U+AB9A",
      "U+AB9B", "U+AB9C", "U+AB9D", "U+AB9E", "U+AB9F", "U+ABA0", "U+ABA1",
      "U+ABA2", "U+ABA3", "U+ABA4", "U+ABA5", "U+ABA6", "U+ABA7", "U+ABA8",
      "U+ABA9", "U+ABAA", "U+ABAB", "U+ABAC", "U+ABAD", "U+ABAE", "U+ABAF",
      "U+ABB0", "U+ABB1", "U+ABB2", "U+ABB3", "U+ABB4", "U+ABB5", "U+ABB6",
      "U+ABB7", "U+ABB8", "U+ABB9", "U+ABBA", "U+ABBB", "U+ABBC", "U+ABBD",
      "U+ABBE", "U+ABBF", "U+FB00", "U+FB01", "U+FB02", "U+FB03", "U+FB04",
      "U+FB05", "U+FB06", "U+FB13", "U+FB14", "U+FB15", "U+FB16", "U+FB17",
      "U+FF21", "U+FF22", "U+FF23", "U+FF24", "U+FF25", "U+FF26", "U+FF27",
      "U+FF28", "U+FF29", "U+FF2A", "U+FF2B", "U+FF2C", "U+FF2D", "U+FF2E",
      "U+FF2F", "U+FF30", "U+FF31", "U+FF32", "U+FF33", "U+FF34", "U+FF35",
      "U+FF36", "U+FF37", "U+FF38", "U+FF39", "U+FF3A", "U+FF41", "U+FF42",
      "U+FF43", "U+FF44", "U+FF45", "U+FF46", "U+FF47", "U+FF48", "U+FF49",
      "U+FF4A", "U+FF4B", "U+FF4C", "U+FF4D", "U+FF4E", "U+FF4F", "U+FF50",
      "U+FF51", "U+FF52", "U+FF53", "U+FF54", "U+FF55", "U+FF56", "U+FF57",
      "U+FF58", "U+FF59", "U+FF5A", "U+10400", "U+10401", "U+10402",
      "U+10403", "U+10404", "U+10405", "U+10406", "U+10407", "U+10408",
      "U+10409", "U+1040A", "U+1040B", "U+1040C", "U+1040D", "U+1040E",
      "U+1040F", "U+10410", "U+10411", "U+10412", "U+10413", "U+10414",
      "U+10415", "U+10416", "U+10417", "U+10418", "U+10419", "U+1041A",
      "U+1041B", "U+1041C", "U+1041D", "U+1041E", "U+1041F", "U+10420",
      "U+10421", "U+10422", "U+10423", "U+10424", "U+10425", "U+10426",
      "U+10427", "U+10428", "U+10429", "U+1042A", "U+1042B", "U+1042C",
      "U+1042D", "U+1042E", "U+1042F", "U+10430", "U+10431", "U+10432",
      "U+10433", "U+10434", "U+10435", "U+10436", "U+10437", "U+10438",
      "U+10439", "U+1043A", "U+1043B", "U+1043C", "U+1043D", "U+1043E",
      "U+1043F", "U+10440", "U+10441", "U+10442", "U+10443", "U+10444",
      "U+10445", "U+10446", "U+10447", "U+10448", "U+10449", "U+1044A",
      "U+1044B", "U+1044C", "U+1044D", "U+1044E", "U+1044F", "U+104B0",
      "U+104B1", "U+104B2", "U+104B3", "U+104B4", "U+104B5", "U+104B6",
      "U+104B7", "U+104B8", "U+104B9", "U+104BA", "U+104BB", "U+104BC",
      "U+104BD", "U+104BE", "U+104BF", "U+104C0", "U+104C1", "U+104C2",
      "U+104C3", "U+104C4", "U+104C5", "U+104C6", "U+104C7", "U+104C8",
      "U+104C9", "U+104CA", "U+104CB", "U+104CC", "U+104CD", "U+104CE",
      "U+104CF", "U+104D0", "U+104D1", "U+104D2", "U+104D3", "U+104D8",
      "U+104D9", "U+104DA", "U+104DB", "U+104DC", "U+104DD", "U+104DE",
      "U+104DF", "U+104E0", "U+104E1", "U+104E2", "U+104E3", "U+104E4",
      "U+104E5", "U+104E6", "U+104E7", "U+104E8", "U+104E9", "U+104EA",
      "U+104EB", "U+104EC", "U+104ED", "U+104EE", "U+104EF", "U+104F0",
      "U+104F1", "U+104F2", "U+104F3", "U+104F4", "U+104F5", "U+104F6",
      "U+104F7", "U+104F8", "U+104F9", "U+104FA", "U+104FB", "U+10570",
      "U+10571", "U+10572", "U+10573", "U+10574", "U+10575", "U+10576",
      "U+10577", "U+10578", "U+10579", "U+1057A", "U+1057C", "U+1057D",
      "U+1057E", "U+1057F", "U+10580", "U+10581", "U+10582", "U+10583",
      "U+10584", "U+10585", "U+10586", "U+10587", "U+10588", "U+10589",
      "U+1058A", "U+1058C", "U+1058D", "U+1058E", "U+1058F", "U+10590",
      "U+10591", "U+10592", "U+10594", "U+10595", "U+10597", "U+10598",
      "U+10599", "U+1059A", "U+1059B", "U+1059C", "U+1059D", "U+1059E",
      "U+1059F", "U+105A0", "U+105A1", "U+105A3", "U+105A4", "U+105A5",
      "U+105A6", "U+105A7", "U+105A8", "U+105A9", "U+105AA", "U+105AB",
      "U+105AC", "U+105AD", "U+105AE", "U+105AF", "U+105B0", "U+105B1",
      "U+105B3", "U+105B4", "U+105B5", "U+105B6", "U+105B7", "U+105B8",
      "U+105B9", "U+105BB", "U+105BC", "U+10C80", "U+10C81", "U+10C82",
      "U+10C83", "U+10C84", "U+10C85", "U+10C86", "U+10C87", "U+10C88",
      "U+10C89", "U+10C8A", "U+10C8B", "U+10C8C", "U+10C8D", "U+10C8E",
      "U+10C8F", "U+10C90", "U+10C91", "U+10C92", "U+10C93", "U+10C94",
      "U+10C95", "U+10C96", "U+10C97", "U+10C98", "U+10C99", "U+10C9A",
      "U+10C9B", "U+10C9C", "U+10C9D", "U+10C9E", "U+10C9F", "U+10CA0",
      "U+10CA1", "U+10CA2", "U+10CA3", "U+10CA4", "U+10CA5", "U+10CA6",
      "U+10CA7", "U+10CA8", "U+10CA9", "U+10CAA", "U+10CAB", "U+10CAC",
      "U+10CAD", "U+10CAE", "U+10CAF", "U+10CB0", "U+10CB1", "U+10CB2",
      "U+10CC0", "U+10CC1", "U+10CC2", "U+10CC3", "U+10CC4", "U+10CC5",
      "U+10CC6", "U+10CC7", "U+10CC8", "U+10CC9", "U+10CCA", "U+10CCB",
      "U+10CCC", "U+10CCD", "U+10CCE", "U+10CCF", "U+10CD0", "U+10CD1",
      "U+10CD2", "U+10CD3", "U+10CD4", "U+10CD5", "U+10CD6", "U+10CD7",
      "U+10CD8", "U+10CD9", "U+10CDA", "U+10CDB", "U+10CDC", "U+10CDD",
      "U+10CDE", "U+10CDF", "U+10CE0", "U+10CE1", "U+10CE2", "U+10CE3",
      "U+10CE4", "U+10CE5", "U+10CE6", "U+10CE7", "U+10CE8", "U+10CE9",
      "U+10CEA", "U+10CEB", "U+10CEC", "U+10CED", "U+10CEE", "U+10CEF",
      "U+10CF0", "U+10CF1", "U+10CF2", "U+118A0", "U+118A1", "U+118A2",
      "U+118A3", "U+118A4", "U+118A5", "U+118A6", "U+118A7", "U+118A8",
      "U+118A9", "U+118AA", "U+118AB", "U+118AC", "U+118AD", "U+118AE",
      "U+118AF", "U+118B0", "U+118B1", "U+118B2", "U+118B3", "U+118B4",
      "U+118B5", "U+118B6", "U+118B7", "U+118B8", "U+118B9", "U+118BA",
      "U+118BB", "U+118BC", "U+118BD", "U+118BE", "U+118BF", "U+118C0",
      "U+118C1", "U+118C2", "U+118C3", "U+118C4", "U+118C5", "U+118C6",
      "U+118C7", "U+118C8", "U+118C9", "U+118CA", "U+118CB", "U+118CC",
      "U+118CD", "U+118CE", "U+118CF", "U+118D0", "U+118D1", "U+118D2",
      "U+118D3", "U+118D4", "U+118D5", "U+118D6", "U+118D7", "U+118D8",
      "U+118D9", "U+118DA", "U+118DB", "U+118DC", "U+118DD", "U+118DE",
      "U+118DF", "U+16E40", "U+16E41", "U+16E42", "U+16E43", "U+16E44",
      "U+16E45", "U+16E46", "U+16E47", "U+16E48", "U+16E49", "U+16E4A",
      "U+16E4B", "U+16E4C", "U+16E4D", "U+16E4E", "U+16E4F", "U+16E50",
      "U+16E51", "U+16E52", "U+16E53", "U+16E54", "U+16E55", "U+16E56",
      "U+16E57", "U+16E58", "U+16E59", "U+16E5A", "U+16E5B", "U+16E5C",
      "U+16E5D", "U+16E5E", "U+16E5F", "U+16E60", "U+16E61", "U+16E62",
      "U+16E63", "U+16E64", "U+16E65", "U+16E66", "U+16E67", "U+16E68",
      "U+16E69", "U+16E6A", "U+16E6B", "U+16E6C", "U+16E6D", "U+16E6E",
      "U+16E6F", "U+16E70", "U+16E71", "U+16E72", "U+16E73", "U+16E74",
      "U+16E75", "U+16E76", "U+16E77", "U+16E78", "U+16E79", "U+16E7A",
      "U+16E7B", "U+16E7C", "U+16E7D", "U+16E7E", "U+16E7F", "U+1D400",
      "U+1D401", "U+1D402", "U+1D403", "U+1D404", "U+1D405", "U+1D406",
      "U+1D407", "U+1D408", "U+1D409", "U+1D40A", "U+1D40B", "U+1D40C",
      "U+1D40D", "U+1D40E", "U+1D40F", "U+1D410", "U+1D411", "U+1D412",
      "U+1D413", "U+1D414", "U+1D415", "U+1D416", "U+1D417", "U+1D418",
      "U+1D419", "U+1D41A", "U+1D41B", "U+1D41C", "U+1D41D", "U+1D41E",
      "U+1D41F", "U+1D420", "U+1D421", "U+1D422", "U+1D423", "U+1D424",
      "U+1D425", "U+1D426", "U+1D427", "U+1D428", "U+1D429", "U+1D42A",
      "U+1D42B", "U+1D42C", "U+1D42D", "U+1D42E", "U+1D42F", "U+1D430",
      "U+1D431", "U+1D432", "U+1D433", "U+1D434", "U+1D435", "U+1D436",
      "U+1D437", "U+1D438", "U+1D439", "U+1D43A", "U+1D43B", "U+1D43C",
      "U+1D43D", "U+1D43E", "U+1D43F", "U+1D440", "U+1D441", "U+1D442",
      "U+1D443", "U+1D444", "U+1D445", "U+1D446", "U+1D447", "U+1D448",
      "U+1D449", "U+1D44A", "U+1D44B", "U+1D44C", "U+1D44D", "U+1D44E",
      "U+1D44F", "U+1D450", "U+1D451", "U+1D452", "U+1D453", "U+1D454",
      "U+1D456", "U+1D457", "U+1D458", "U+1D459", "U+1D45A", "U+1D45B",
      "U+1D45C", "U+1D45D", "U+1D45E", "U+1D45F", "U+1D460", "U+1D461",
      "U+1D462", "U+1D463", "U+1D464", "U+1D465", "U+1D466", "U+1D467",
      "U+1D468", "U+1D469", "U+1D46A", "U+1D46B", "U+1D46C", "U+1D46D",
      "U+1D46E", "U+1D46F", "U+1D470", "U+1D471", "U+1D472", "U+1D473",
      "U+1D474", "U+1D475", "U+1D476", "U+1D477", "U+1D478", "U+1D479",
      "U+1D47A", "U+1D47B", "U+1D47C", "U+1D47D", "U+1D47E", "U+1D47F",
      "U+1D480", "U+1D481", "U+1D482", "U+1D483", "U+1D484", "U+1D485",
      "U+1D486", "U+1D487", "U+1D488", "U+1D489", "U+1D48A", "U+1D48B",
      "U+1D48C", "U+1D48D", "U+1D48E", "U+1D48F", "U+1D490", "U+1D491",
      "U+1D492", "U+1D493", "U+1D494", "U+1D495", "U+1D496", "U+1D497",
      "U+1D498", "U+1D499", "U+1D49A", "U+1D49B", "U+1D49C", "U+1D49E",
      "U+1D49F", "U+1D4A2", "U+1D4A5", "U+1D4A6", "U+1D4A9", "U+1D4AA",
      "U+1D4AB", "U+1D4AC", "U+1D4AE", "U+1D4AF", "U+1D4B0", "U+1D4B1",
      "U+1D4B2", "U+1D4B3", "U+1D4B4", "U+1D4B5", "U+1D4B6", "U+1D4B7",
      "U+1D4B8", "U+1D4B9", "U+1D4BB", "U+1D4BD", "U+1D4BE", "U+1D4BF",
      "U+1D4C0", "U+1D4C1", "U+1D4C2", "U+1D4C3", "U+1D4C5", "U+1D4C6",
      "U+1D4C7", "U+1D4C8", "U+1D4C9", "U+1D4CA", "U+1D4CB", "U+1D4CC",
      "U+1D4CD", "U+1D4CE", "U+1D4CF", "U+1D4D0", "U+1D4D1", "U+1D4D2",
      "U+1D4D3", "U+1D4D4", "U+1D4D5", "U+1D4D6", "U+1D4D7", "U+1D4D8",
      "U+1D4D9", "U+1D4DA", "U+1D4DB", "U+1D4DC", "U+1D4DD", "U+1D4DE",
      "U+1D4DF", "U+1D4E0", "U+1D4E1", "U+1D4E2", "U+1D4E3", "U+1D4E4",
      "U+1D4E5", "U+1D4E6", "U+1D4E7", "U+1D4E8", "U+1D4E9", "U+1D4EA",
      "U+1D4EB", "U+1D4EC", "U+1D4ED", "U+1D4EE", "U+1D4EF", "U+1D4F0",
      "U+1D4F1", "U+1D4F2", "U+1D4F3", "U+1D4F4", "U+1D4F5", "U+1D4F6",
      "U+1D4F7", "U+1D4F8", "U+1D4F9", "U+1D4FA", "U+1D4FB", "U+1D4FC",
      "U+1D4FD", "U+1D4FE", "U+1D4FF", "U+1D500", "U+1D501", "U+1D502",
      "U+1D503", "U+1D504", "U+1D505", "U+1D507", "U+1D508", "U+1D509",
      "U+1D50A", "U+1D50D", "U+1D50E", "U+1D50F", "U+1D510", "U+1D511",
      "U+1D512", "U+1D513", "U+1D514", "U+1D516", "U+1D517", "U+1D518",
      "U+1D519", "U+1D51A", "U+1D51B", "U+1D51C", "U+1D51E", "U+1D51F",
      "U+1D520", "U+1D521", "U+1D522", "U+1D523", "U+1D524", "U+1D525",
      "U+1D526", "U+1D527", "U+1D528", "U+1D529", "U+1D52A", "U+1D52B",
      "U+1D52C", "U+1D52D", "U+1D52E", "U+1D52F", "U+1D530", "U+1D531",
      "U+1D532", "U+1D533", "U+1D534", "U+1D535", "U+1D536", "U+1D537",
      "U+1D538", "U+1D539", "U+1D53B", "U+1D53C", "U+1D53D", "U+1D53E",
      "U+1D540", "U+1D541", "U+1D542", "U+1D543", "U+1D544", "U+1D546",
      "U+1D54A", "U+1D54B", "U+1D54C", "U+1D54D", "U+1D54E", "U+1D54F",
      "U+1D550", "U+1D552", "U+1D553", "U+1D554", "U+1D555", "U+1D556",
      "U+1D557", "U+1D558", "U+1D559", "U+1D55A", "U+1D55B", "U+1D55C",
      "U+1D55D", "U+1D55E", "U+1D55F", "U+1D560", "U+1D561", "U+1D562",
      "U+1D563", "U+1D564", "U+1D565", "U+1D566", "U+1D567", "U+1D568",
      "U+1D569", "U+1D56A", "U+1D56B", "U+1D56C", "U+1D56D", "U+1D56E",
      "U+1D56F", "U+1D570", "U+1D571", "U+1D572", "U+1D573", "U+1D574",
      "U+1D575", "U+1D576", "U+1D577", "U+1D578", "U+1D579", "U+1D57A",
      "U+1D57B", "U+1D57C", "U+1D57D", "U+1D57E", "U+1D57F", "U+1D580",
      "U+1D581", "U+1D582", "U+1D583", "U+1D584", "U+1D585", "U+1D586",
      "U+1D587", "U+1D588", "U+1D589", "U+1D58A", "U+1D58B", "U+1D58C",
      "U+1D58D", "U+1D58E", "U+1D58F", "U+1D590", "U+1D591", "U+1D592",
      "U+1D593", "U+1D594", "U+1D595", "U+1D596", "U+1D597", "U+1D598",
      "U+1D599", "U+1D59A", "U+1D59B", "U+1D59C", "U+1D59D", "U+1D59E",
      "U+1D59F", "U+1D5A0", "U+1D5A1", "U+1D5A2", "U+1D5A3", "U+1D5A4",
      "U+1D5A5", "U+1D5A6", "U+1D5A7", "U+1D5A8", "U+1D5A9", "U+1D5AA",
      "U+1D5AB", "U+1D5AC", "U+1D5AD", "U+1D5AE", "U+1D5AF", "U+1D5B0",
      "U+1D5B1", "U+1D5B2", "U+1D5B3", "U+1D5B4", "U+1D5B5", "U+1D5B6",
      "U+1D5B7", "U+1D5B8", "U+1D5B9", "U+1D5BA", "U+1D5BB", "U+1D5BC",
      "U+1D5BD", "U+1D5BE", "U+1D5BF", "U+1D5C0", "U+1D5C1", "U+1D5C2",
      "U+1D5C3", "U+1D5C4", "U+1D5C5", "U+1D5C6", "U+1D5C7", "U+1D5C8",
      "U+1D5C9", "U+1D5CA", "U+1D5CB", "U+1D5CC", "U+1D5CD", "U+1D5CE",
      "U+1D5CF", "U+1D5D0", "U+1D5D1", "U+1D5D2", "U+1D5D3", "U+1D5D4",
      "U+1D5D5", "U+1D5D6", "U+1D5D7", "U+1D5D8", "U+1D5D9", "U+1D5DA",
      "U+1D5DB", "U+1D5DC", "U+1D5DD", "U+1D5DE", "U+1D5DF", "U+1D5E0",
      "U+1D5E1", "U+1D5E2", "U+1D5E3", "U+1D5E4", "U+1D5E5", "U+1D5E6",
      "U+1D5E7", "U+1D5E8", "U+1D5E9", "U+1D5EA", "U+1D5EB", "U+1D5EC",
      "U+1D5ED", "U+1D5EE", "U+1D5EF", "U+1D5F0", "U+1D5F1", "U+1D5F2",
      "U+1D5F3", "U+1D5F4", "U+1D5F5", "U+1D5F6", "U+1D5F7", "U+1D5F8",
      "U+1D5F9", "U+1D5FA", "U+1D5FB", "U+1D5FC", "U+1D5FD", "U+1D5FE",
      "U+1D5FF", "U+1D600", "U+1D601", "U+1D602", "U+1D603", "U+1D604",
      "U+1D605", "U+1D606", "U+1D607", "U+1D608", "U+1D609", "U+1D60A",
      "U+1D60B", "U+1D60C", "U+1D60D", "U+1D60E", "U+1D60F", "U+1D610",
      "U+1D611", "U+1D612", "U+1D613", "U+1D614", "U+1D615", "U+1D616",
      "U+1D617", "U+1D618", "U+1D619", "U+1D61A", "U+1D61B", "U+1D61C",
      "U+1D61D", "U+1D61E", "U+1D61F", "U+1D620", "U+1D621", "U+1D622",
      "U+1D623", "U+1D624", "U+1D625", "U+1D626", "U+1D627", "U+1D628",
      "U+1D629", "U+1D62A", "U+1D62B", "U+1D62C", "U+1D62D", "U+1D62E",
      "U+1D62F", "U+1D630", "U+1D631", "U+1D632", "U+1D633", "U+1D634",
      "U+1D635", "U+1D636", "U+1D637", "U+1D638", "U+1D639", "U+1D63A",
      "U+1D63B", "U+1D63C", "U+1D63D", "U+1D63E", "U+1D63F", "U+1D640",
      "U+1D641", "U+1D642", "U+1D643", "U+1D644", "U+1D645", "U+1D646",
      "U+1D647", "U+1D648", "U+1D649", "U+1D64A", "U+1D64B", "U+1D64C",
      "U+1D64D", "U+1D64E", "U+1D64F", "U+1D650", "U+1D651", "U+1D652",
      "U+1D653", "U+1D654", "U+1D655", "U+1D656", "U+1D657", "U+1D658",
      "U+1D659", "U+1D65A", "U+1D65B", "U+1D65C", "U+1D65D", "U+1D65E",
      "U+1D65F", "U+1D660", "U+1D661", "U+1D662", "U+1D663", "U+1D664",
      "U+1D665", "U+1D666", "U+1D667", "U+1D668", "U+1D669", "U+1D66A",
      "U+1D66B", "U+1D66C", "U+1D66D", "U+1D66E", "U+1D66F", "U+1D670",
      "U+1D671", "U+1D672", "U+1D673", "U+1D674", "U+1D675", "U+1D676",
      "U+1D677", "U+1D678", "U+1D679", "U+1D67A", "U+1D67B", "U+1D67C",
      "U+1D67D", "U+1D67E", "U+1D67F", "U+1D680", "U+1D681", "U+1D682",
      "U+1D683", "U+1D684", "U+1D685", "U+1D686", "U+1D687", "U+1D688",
      "U+1D689", "U+1D68A", "U+1D68B", "U+1D68C", "U+1D68D", "U+1D68E",
      "U+1D68F", "U+1D690", "U+1D691", "U+1D692", "U+1D693", "U+1D694",
      "U+1D695", "U+1D696", "U+1D697", "U+1D698", "U+1D699", "U+1D69A",
      "U+1D69B", "U+1D69C", "U+1D69D", "U+1D69E", "U+1D69F", "U+1D6A0",
      "U+1D6A1", "U+1D6A2", "U+1D6A3", "U+1D6A4", "U+1D6A5", "U+1D6A8",
      "U+1D6A9", "U+1D6AA", "U+1D6AB", "U+1D6AC", "U+1D6AD", "U+1D6AE",
      "U+1D6AF", "U+1D6B0", "U+1D6B1", "U+1D6B2", "U+1D6B3", "U+1D6B4",
      "U+1D6B5", "U+1D6B6", "U+1D6B7", "U+1D6B8", "U+1D6B9", "U+1D6BA",
      "U+1D6BB", "U+1D6BC", "U+1D6BD", "U+1D6BE", "U+1D6BF", "U+1D6C0",
      "U+1D6C2", "U+1D6C3", "U+1D6C4", "U+1D6C5", "U+1D6C6", "U+1D6C7",
      "U+1D6C8", "U+1D6C9", "U+1D6CA", "U+1D6CB", "U+1D6CC", "U+1D6CD",
      "U+1D6CE", "U+1D6CF", "U+1D6D0", "U+1D6D1", "U+1D6D2", "U+1D6D3",
      "U+1D6D4", "U+1D6D5", "U+1D6D6", "U+1D6D7", "U+1D6D8", "U+1D6D9",
      "U+1D6DA", "U+1D6DC", "U+1D6DD", "U+1D6DE", "U+1D6DF", "U+1D6E0",
      "U+1D6E1", "U+1D6E2", "U+1D6E3", "U+1D6E4", "U+1D6E5", "U+1D6E6",
      "U+1D6E7", "U+1D6E8", "U+1D6E9", "U+1D6EA", "U+1D6EB", "U+1D6EC",
      "U+1D6ED", "U+1D6EE", "U+1D6EF", "U+1D6F0", "U+1D6F1", "U+1D6F2",
      "U+1D6F3", "U+1D6F4", "U+1D6F5", "U+1D6F6", "U+1D6F7", "U+1D6F8",
      "U+1D6F9", "U+1D6FA", "U+1D6FC", "U+1D6FD", "U+1D6FE", "U+1D6FF",
      "U+1D700", "U+1D701", "U+1D702", "U+1D703", "U+1D704", "U+1D705",
      "U+1D706", "U+1D707", "U+1D708", "U+1D709", "U+1D70A", "U+1D70B",
      "U+1D70C", "U+1D70D", "U+1D70E", "U+1D70F", "U+1D710", "U+1D711",
      "U+1D712", "U+1D713", "U+1D714", "U+1D716", "U+1D717", "U+1D718",
      "U+1D719", "U+1D71A", "U+1D71B", "U+1D71C", "U+1D71D", "U+1D71E",
      "U+1D71F", "U+1D720", "U+1D721", "U+1D722", "U+1D723", "U+1D724",
      "U+1D725", "U+1D726", "U+1D727", "U+1D728", "U+1D729", "U+1D72A",
      "U+1D72B", "U+1D72C", "U+1D72D", "U+1D72E", "U+1D72F", "U+1D730",
      "U+1D731", "U+1D732", "U+1D733", "U+1D734", "U+1D736", "U+1D737",
      "U+1D738", "U+1D739", "U+1D73A", "U+1D73B", "U+1D73C", "U+1D73D",
      "U+1D73E", "U+1D73F", "U+1D740", "U+1D741", "U+1D742", "U+1D743",
      "U+1D744", "U+1D745", "U+1D746", "U+1D747", "U+1D748", "U+1D749",
      "U+1D74A", "U+1D74B", "U+1D74C", "U+1D74D", "U+1D74E", "U+1D750",
      "U+1D751", "U+1D752", "U+1D753", "U+1D754", "U+1D755", "U+1D756",
      "U+1D757", "U+1D758", "U+1D759", "U+1D75A", "U+1D75B", "U+1D75C",
      "U+1D75D", "U+1D75E", "U+1D75F", "U+1D760", "U+1D761", "U+1D762",
      "U+1D763", "U+1D764", "U+1D765", "U+1D766", "U+1D767", "U+1D768",
      "U+1D769", "U+1D76A", "U+1D76B", "U+1D76C", "U+1D76D", "U+1D76E",
      "U+1D770", "U+1D771", "U+1D772", "U+1D773", "U+1D774", "U+1D775",
      "U+1D776", "U+1D777", "U+1D778", "U+1D779", "U+1D77A", "U+1D77B",
      "U+1D77C", "U+1D77D", "U+1D77E", "U+1D77F", "U+1D780", "U+1D781",
      "U+1D782", "U+1D783", "U+1D784", "U+1D785", "U+1D786", "U+1D787",
      "U+1D788", "U+1D78A", "U+1D78B", "U+1D78C", "U+1D78D", "U+1D78E",
      "U+1D78F", "U+1D790", "U+1D791", "U+1D792", "U+1D793", "U+1D794",
      "U+1D795", "U+1D796", "U+1D797", "U+1D798", "U+1D799", "U+1D79A",
      "U+1D79B", "U+1D79C", "U+1D79D", "U+1D79E", "U+1D79F", "U+1D7A0",
      "U+1D7A1", "U+1D7A2", "U+1D7A3", "U+1D7A4", "U+1D7A5", "U+1D7A6",
      "U+1D7A7", "U+1D7A8", "U+1D7AA", "U+1D7AB", "U+1D7AC", "U+1D7AD",
      "U+1D7AE", "U+1D7AF", "U+1D7B0", "U+1D7B1", "U+1D7B2", "U+1D7B3",
      "U+1D7B4", "U+1D7B5", "U+1D7B6", "U+1D7B7", "U+1D7B8", "U+1D7B9",
      "U+1D7BA", "U+1D7BB", "U+1D7BC", "U+1D7BD", "U+1D7BE", "U+1D7BF",
      "U+1D7C0", "U+1D7C1", "U+1D7C2", "U+1D7C4", "U+1D7C5", "U+1D7C6",
      "U+1D7C7", "U+1D7C8", "U+1D7C9", "U+1D7CA", "U+1D7CB", "U+1DF00",
      "U+1DF01", "U+1DF02", "U+1DF03", "U+1DF04", "U+1DF05", "U+1DF06",
      "U+1DF07", "U+1DF08", "U+1DF09", "U+1DF0B", "U+1DF0C", "U+1DF0D",
      "U+1DF0E", "U+1DF0F", "U+1DF10", "U+1DF11", "U+1DF12", "U+1DF13",
      "U+1DF14", "U+1DF15", "U+1DF16", "U+1DF17", "U+1DF18", "U+1DF19",
      "U+1DF1A", "U+1DF1B", "U+1DF1C", "U+1DF1D", "U+1DF1E", "U+1E900",
      "U+1E901", "U+1E902", "U+1E903", "U+1E904", "U+1E905", "U+1E906",
      "U+1E907", "U+1E908", "U+1E909", "U+1E90A", "U+1E90B", "U+1E90C",
      "U+1E90D", "U+1E90E", "U+1E90F", "U+1E910", "U+1E911", "U+1E912",
      "U+1E913", "U+1E914", "U+1E915", "U+1E916", "U+1E917", "U+1E918",
      "U+1E919", "U+1E91A", "U+1E91B", "U+1E91C", "U+1E91D", "U+1E91E",
      "U+1E91F", "U+1E920", "U+1E921", "U+1E922", "U+1E923", "U+1E924",
      "U+1E925", "U+1E926", "U+1E927", "U+1E928", "U+1E929", "U+1E92A",
      "U+1E92B", "U+1E92C", "U+1E92D", "U+1E92E", "U+1E92F", "U+1E930",
      "U+1E931", "U+1E932", "U+1E933", "U+1E934", "U+1E935", "U+1E936",
      "U+1E937", "U+1E938", "U+1E939", "U+1E93A", "U+1E93B", "U+1E93C",
      "U+1E93D", "U+1E93E", "U+1E93F", "U+1E940", "U+1E941", "U+1E942",
      "U+1E943", "U+1F130", "U+1F131", "U+1F132", "U+1F133", "U+1F134",
      "U+1F135", "U+1F136", "U+1F137", "U+1F138", "U+1F139", "U+1F13A",
      "U+1F13B", "U+1F13C", "U+1F13D", "U+1F13E", "U+1F13F", "U+1F140",
      "U+1F141", "U+1F142", "U+1F143", "U+1F144", "U+1F145", "U+1F146",
      "U+1F147", "U+1F148", "U+1F149", "U+1F150", "U+1F151", "U+1F152",
      "U+1F153", "U+1F154", "U+1F155", "U+1F156", "U+1F157", "U+1F158",
      "U+1F159", "U+1F15A", "U+1F15B", "U+1F15C", "U+1F15D", "U+1F15E",
      "U+1F15F", "U+1F160", "U+1F161", "U+1F162", "U+1F163", "U+1F164",
      "U+1F165", "U+1F166", "U+1F167", "U+1F168", "U+1F169", "U+1F170",
      "U+1F171", "U+1F172", "U+1F173", "U+1F174", "U+1F175", "U+1F176",
      "U+1F177", "U+1F178", "U+1F179", "U+1F17A", "U+1F17B", "U+1F17C",
      "U+1F17D", "U+1F17E", "U+1F17F", "U+1F180", "U+1F181", "U+1F182",
      "U+1F183", "U+1F184", "U+1F185", "U+1F186", "U+1F187", "U+1F188",
      "U+1F189" }

\* ------------------------------------------------------------ text helpers
\* the argument of link.text.strip(" MIDDOT EMDASH - \n \t")
SeparatorChars == {" ", "MIDDOT", "EMDASH", "-", "\n", "\t"}

Digits == UNION {{DigitRows[r][k] : k \in 1..10} : r \in 1..Len(DigitRows)}

\* the value of a decimal digit, int(c)
DigitValue ==
    [c \in Digits |->
       CHOOSE v \in 0..9 : \E r \in 1..Len(DigitRows) : DigitRows[r][v + 1] = c]

\* str.lstrip(chars), str.rstrip(chars)
LStrip(s, chars) ==
    IF \A k \in 1..Len(s) : s[k] \in chars THEN <<>>
    ELSE SubSeq(s, CHOOSE k \in 1..Len(s) :
                       s[k] \notin chars /\ \A j \in 1..(k - 1) : s[j] \in chars,
                Len(s))

RStrip(s, chars) ==
    IF \A k \in 1..Len(s) : s[k] \in chars THEN <<>>
    ELSE SubSeq(s, 1, CHOOSE k \in 1..Len(s) :
                          s[k] \notin chars /\ \A j \in (k + 1)..Len(s) : s[j] \in chars)

\* str.strip(chars)
Strip(s, chars) == RStrip(LStrip(s, chars), chars)

\* sep.join(parts)
RECURSIVE Join(_, _)
Join(sep, parts) ==
    IF parts = <<>> THEN <<>>
    ELSE IF Len(parts) = 1 THEN parts[1]
    ELSE parts[1] \o sep \o Join(sep, Tail(parts))

\* needle in text
Contains(text, needle) ==
    \E k \in 1..(Len(text) + 1) :
        /\ k + Len(needle) - 1 <= Len(text)
        /\ SubSeq(text, k, k + Len(needle) - 1) = needle

LowerMap ==
    [c \in {UpperChars[k] : k \in 1..Len(UpperChars)} |->
       LowerChars[CHOOSE k \in 1..Len(UpperChars) : UpperChars[k] = c]]

\* A capital sigma is lowered to the final form when a cased letter stands
\* before it and none after it, case-ignorable characters skipped.
FinalSigma(s, k) ==
    LET before == {j \in 1..(k - 1) : s[j] \notin CaseIgnorable}
        after  == {j \in (k + 1)..Len(s) : s[j] \notin CaseIgnorable}
    IN /\ before # {}
       /\ s[CHOOSE j \in before : \A m \in before : m <= j] \in CasedChars
       /\ \/ after = {}
          \/ s[CHOOSE j \in after : \A m \in after : j <= m] \notin CasedChars

\* str.lower() of the characters a..b of s
RECURSIVE LowerRange(_, _, _)
LowerRange(s, a, b) ==
    IF a > b THEN <<>>
    ELSE IF a < b
    THEN LowerRange(s, a, (a + b) \div 2) \o LowerRange(s, ((a + b) \div 2) + 1, b)
    ELSE IF s[a] = "U+03A3"
    THEN <<IF FinalSigma(s, a) THEN "U+03C2" ELSE "U+03C3">>
    ELSE IF s[a] = "U+0130" THEN <<"i", "U+0307">>
    ELSE IF s[a] \in DOMAIN LowerMap THEN <<LowerMap[s[a]]>>
    ELSE <<s[a]>>

\* str.lower()
Lower(s) == LowerRange(s, 1, Len(s))

\* ------------------------------------------------------------------- config
CityUrl == <<"https:", "/", "/", "zoon.ru", "/", "tomsk", "/", "restaurants", "/">>

AsciiDigit == <<"0", "1", "2", "3", "4", "5", "6", "7", "8", "9">>

\* str(n), the decimal digits of n
RECURSIVE Str(_)
Str(n) ==
    IF n < 10 THEN <<AsciiDigit[n + 1]>>
    ELSE Str(n \div 10) \o Str(n % 10)

\* f"{page:02d}"
Suffix(page) == IF page < 10 THEN <<"0">> \o Str(page) ELSE Str(page)

\* A page_url that leaves the trailing slashes of the base in place.
ParserConfig_page_url_NoStrip(city_url, page) ==
    IF page = 1 THEN city_url
    ELSE city_url \o <<"/", "page-">> \o Str(page) \o <<"/">>

\* ParserConfig.page_url, with self.city_url as a parameter
ParserConfig_page_url(city_url, page) ==
    IF page = 1 THEN city_url
    ELSE RStrip(city_url, {"/"}) \o <<"/", "page-">> \o Str(page) \o <<"/">>

\* config.page_url(page) of a default ParserConfig
page_url(page) == ParserConfig_page_url(CityUrl, page)

\* zoon_tomsk_restaurants.py: the module constant and its page_url(n)
CITY_URL == <<"https:", "/", "/", "zoon.ru", "/", "tomsk", "/", "restaurants", "/">>

legacy_page_url(n) ==
    IF n = 1 THEN CITY_URL
    ELSE RStrip(CITY_URL, {"/"}) \o <<"/", "page-">> \o Str(n) \o <<"/">>

\* ----------------------------------------------------------- the detector
\* The five marker phrases; the first and the last are Russian: "my
\* proveryaem, chto vy ne robot" and "podozhdite neskolko sekund".
PROTECT_TOKENS ==
    { << "U+043C", "U+044B", " ", "U+043F", "U+0440", "U+043E", "U+0432",
         "U+0435", "U+0440", "U+044F", "U+0435", "U+043C", ",", " ",
         "U+0447", "U+0442", "U+043E", " ", "U+0432", "U+044B", " ",
         "U+043D", "U+0435", " ", "U+0440", "U+043E", "U+0431", "U+043E",
         "U+0442" >>,
      << "c", "h", "e", "c", "k", "i", "n", "g", " ", "y", "o", "u", "r",
         " ", "b", "r", "o", "w", "s", "e", "r" >>,
      << "y", "o", "u", " ", "w", "i", "l", "l", " ", "b", "e", " ", "r",
         "e", "d", "i", "r", "e", "c", "t", "e", "d" >>,
      << "c", "l", "o", "u", "d", "f", "l", "a", "r", "e" >>,
      << "U+043F", "U+043E", "U+0434", "U+043E", "U+0436", "U+0434",
         "U+0438", "U+0442", "U+0435", " ", "U+043D", "U+0435", "U+0441",
         "U+043A", "U+043E", "U+043B", "U+044C", "U+043A", "U+043E", " ",
         "U+0441", "U+0435", "U+043A", "U+0443", "U+043D", "U+0434" >> }

\* any(token in driver.page_source.lower() for token in PROTECT_TOKENS)
_is_protect_screen(html) ==
    LET source == Lower(html)
    IN \E token \in PROTECT_TOKENS : Contains(source, token)

\* Page sources: a listing, three challenge screens in mixed case (the last
\* one "Podozhdite neskolko sekund." in Russian), a near miss, an empty page.
HtmlSamples ==
    { <<"<", "u", "l", ">">>,
      <<"<", "b", ">", "C", "h", "e", "c", "k", "i", "n", "g", " ", "Y", "o", "u", "r", " ", "B", "r", "o", "w", "s", "e", "r">>,
      <<"C", "L", "O", "U", "D", "F", "L", "A", "R", "E">>,
      << "U+041F", "U+043E", "U+0434", "U+043E", "U+0436", "U+0434",
         "U+0438", "U+0442", "U+0435", " ", "U+043D", "U+0435", "U+0441",
         "U+043A", "U+043E", "U+043B", "U+044C", "U+043A", "U+043E", " ",
         "U+0441", "U+0435", "U+043A", "U+0443", "U+043D", "U+0434", "." >>,
      <<"c", "h", "e", "c", "k", "i", "n", "g", " ", "b", "r", "o", "w", "s", "e", "r">>,
      << >> }

\* ---------------------------------------------------------------- float()
\* A natural number of any size is the sequence of its decimal digits, most
\* significant first and without a leading zero; <<>> is 0.
BigTrim(n) ==
    IF \A k \in 1..Len(n) : n[k] = 0 THEN <<>>
    ELSE SubSeq(n, CHOOSE k \in 1..Len(n) : n[k] # 0 /\ \A j \in 1..(k - 1) : n[j] = 0,
                Len(n))

Zeros(k) == [j \in 1..k |-> 0]

BigDouble(n) ==
    LET carry(k) == IF k <= Len(n) /\ n[k] >= 5 THEN 1 ELSE 0
    IN (IF carry(1) = 1 THEN <<1>> ELSE <<>>)
       \o [k \in 1..Len(n) |-> (2 * n[k] + carry(k + 1)) % 10]

BigHalf(n) ==
    BigTrim([k \in 1..Len(n) |->
               (n[k] \div 2) + (IF k > 1 /\ n[k - 1] % 2 = 1 THEN 5 ELSE 0)])

\* n + 1: the nines at the end turn to zeros
BigInc(n) ==
    IF \A k \in 1..Len(n) : n[k] = 9 THEN <<1>> \o Zeros(Len(n))
    ELSE LET p == CHOOSE k \in 1..Len(n) :
                      n[k] # 9 /\ \A j \in (k + 1)..Len(n) : n[j] = 9
         IN [k \in 1..Len(n) |->
               IF k < p THEN n[k] ELSE IF k = p THEN n[k] + 1 ELSE 0]

\* a < b: fewer digits, or the lesser digit where the two first differ
BigLess(a, b) ==
    \/ Len(a) < Len(b)
    \/ /\ Len(a) = Len(b)
       /\ a # b
       /\ LET k == CHOOSE k \in 1..Len(a) :
                        a[k] # b[k] /\ \A j \in 1..(k - 1) : a[j] = b[j]
          IN a[k] < b[k]

\* a - b, for a >= b: digit by digit, a borrow taken where the digits of a to
\* the right are less than those of b
BigSub(a, b) ==
    LET sub(k) == IF k + Len(b) - Len(a) >= 1 THEN b[k + Len(b) - Len(a)] ELSE 0
        borrow(k) ==
            IF \A m \in (k + 1)..Len(a) : a[m] = sub(m) THEN 0
            ELSE LET m == CHOOSE m \in (k + 1)..Len(a) :
                              a[m] # sub(m) /\ \A j \in (k + 1)..(m - 1) : a[j] = sub(j)
                 IN IF a[m] < sub(m) THEN 1 ELSE 0
    IN BigTrim([k \in 1..Len(a) |-> ((a[k] + 10) - (sub(k) + borrow(k))) % 10])

\* n * 2^k and n * 5^k: half of the steps, and the rest once those are
\* worked out
RECURSIVE TimesTwoTo(_, _)
TimesTwoTo(n, k) ==
    IF k = 0 THEN n
    ELSE IF k = 1 THEN BigDouble(n)
    ELSE LET half == TimesTwoTo(n, k \div 2)
         IN IF half = <<>> THEN half ELSE TimesTwoTo(half, k - (k \div 2))

RECURSIVE TimesFiveTo(_, _)
TimesFiveTo(n, k) ==
    IF k = 0 THEN n
    ELSE IF k = 1 THEN BigHalf(Append(n, 0))
    ELSE LET half == TimesFiveTo(n, k \div 2)
         IN IF half = <<>> THEN half ELSE TimesFiveTo(half, k - (k \div 2))

\* A binary double is zero, infinite, or q * 2^x with q odd.
DoubleZero == [kind |-> "zero", q |-> <<>>, x |-> 0]
DoubleInf == [kind |-> "inf", q |-> <<>>, x |-> 0]

RECURSIVE OddForm(_, _)
OddForm(q, x) ==
    IF q[Len(q)] % 2 = 0 THEN OddForm(BigHalf(q), x + 1)
    ELSE [kind |-> "finite", q |-> q, x |-> x]

RECURSIVE ScaleFrom(_, _, _)
ScaleFrom(a, b, e) ==
    IF ~BigLess(a, b) THEN ScaleFrom(a, BigDouble(b), e + 1)
    ELSE IF BigLess(BigDouble(a), b) THEN ScaleFrom(BigDouble(a), b, e - 1)
    ELSE [a |-> a, b |-> b, e |-> e]

\* a/b = (a'/b') * 2^e with 1/2 <= a'/b' < 1. A first power of two comes
\* from the lengths (10^d >= 2^(332 d / 100)), the rest step by step.
Scale(a, b) ==
    LET d == Len(a) - Len(b)
        k == IF d >= 1 THEN (332 * (d - 1)) \div 100
             ELSE IF d <= 0 - 1 THEN (332 * ((0 - d) - 1)) \div 100
             ELSE 0
    IN IF d >= 1 THEN ScaleFrom(a, TimesTwoTo(b, k), k)
       ELSE ScaleFrom(TimesTwoTo(a, k), b, 0 - k)

\* the first n binary digits q of r/b < 1, and what is left: r/b = (q + r'/b) / 2^n
RECURSIVE Bits(_, _, _, _)
Bits(r, b, n, q) ==
    IF n = 0 THEN [q |-> q, r |-> r]
    ELSE IF n = 1
    THEN LET r2 == BigDouble(r)
         IN IF BigLess(r2, b) THEN [q |-> BigDouble(q), r |-> r2]
            ELSE [q |-> BigInc(BigDouble(q)), r |-> BigSub(r2, b)]
    ELSE LET half == Bits(r, b, n \div 2, q)
         IN IF Len(half.q) + Len(half.r) >= 0
            THEN Bits(half.r, b, n - (n \div 2), half.q)
            ELSE half

TwoTo53 == <<9, 0, 0, 7, 1, 9, 9, 2, 5, 4, 7, 4, 0, 9, 9, 2>>

\* The double nearest to a/b, ties to the even mantissa: 53 binary digits,
\* fewer below 2^-1022, infinite from 2^1024.
NearestDouble(a, b) ==
    LET Mantissa(t, sb) ==
            LET r2  == BigDouble(t.r)
                odd == t.q # <<>> /\ t.q[Len(t.q)] % 2 = 1
            IN IF BigLess(sb, r2) \/ (r2 = sb /\ odd) THEN BigInc(t.q) ELSE t.q
        Rounded(m, e, nb) ==
            IF m = <<>> THEN DoubleZero
            ELSE IF e > 1024 \/ (e = 1024 /\ m = TwoTo53) THEN DoubleInf
            ELSE OddForm(m, e - nb)
        Scaled(s) ==
            LET nb == IF s.e - 1 >= 0 - 1022 THEN 53 ELSE s.e + 1074
            IN IF nb < 0 THEN DoubleZero
               ELSE Rounded(Mantissa(Bits(s.a, s.b, nb, <<>>), s.b), s.e, nb)
    IN IF a = <<>> THEN DoubleZero ELSE Scaled(Scale(a, b))

\* digits * 10^exp
Decimal(digits, exp) == [digits |-> digits, exp |-> exp]

\* a decimal as the fraction NearestDouble takes
DoubleOf(dec) ==
    NearestDouble(dec.digits \o Zeros(IF dec.exp >= 0 THEN dec.exp ELSE 0),
                  <<1>> \o Zeros(IF dec.exp >= 0 THEN 0 ELSE 0 - dec.exp))

\* the exact value of a finite double
ExactDecimal(d) ==
    IF d.x >= 0 THEN Decimal(TimesTwoTo(d.q, d.x), 0)
    ELSE Decimal(TimesFiveTo(d.q, 0 - d.x), d.x)

\* The decimals of n digits next to the exact value of d, below and above,
\* and whether float() reads each back as d.
Neighbours(d, exact, n) ==
    LET M    == exact.digits
        drop == Len(M) - n
        lo   == Decimal(SubSeq(M, 1, n), exact.exp + drop)
        hi   == Decimal(BigInc(lo.digits), exact.exp + drop)
    IN [lo |-> lo, hi |-> hi,
        loOK |-> DoubleOf(lo) = d, hiOK |-> DoubleOf(hi) = d,
        up |-> \/ M[n + 1] > 5
               \/ /\ M[n + 1] = 5
                  /\ \/ \E k \in (n + 2)..Len(M) : M[k] # 0
                     \/ M[n] % 2 = 1]

ReadsBack(d, exact, n) ==
    LET Either(c) == c.loOK \/ c.hiOK
    IN Len(exact.digits) <= n \/ Either(Neighbours(d, exact, n))

\* the least n in lo..hi with a decimal of n digits that reads back as d,
\* given that hi is one
RECURSIVE LeastDigits(_, _, _, _)
LeastDigits(d, exact, lo, hi) ==
    IF lo = hi THEN hi
    ELSE LET mid == (lo + hi) \div 2
         IN IF ReadsBack(d, exact, mid) THEN LeastDigits(d, exact, lo, mid)
            ELSE LeastDigits(d, exact, mid + 1, hi)

\* repr(): the shortest decimal that float() reads back as d, and of that
\* length the one nearest to d. Seventeen digits always read back.
Shortest(d, exact) ==
    LET Nearer(c) ==
            IF c.up /\ c.hiOK THEN c.hi
            ELSE IF ~c.up /\ c.loOK THEN c.lo
            ELSE IF c.hiOK THEN c.hi
            ELSE c.lo
        OfLength(n) ==
            IF Len(exact.digits) <= n THEN exact
            ELSE Nearer(Neighbours(d, exact, n))
    IN OfLength(LeastDigits(d, exact, 1, 17))

\* the zeros at the end of the digits moved into the exponent
DropZeros(dec) ==
    LET n == Len(dec.digits)
    IN IF \A k \in 1..n : dec.digits[k] = 0 THEN Decimal(<<>>, 0)
       ELSE LET last == CHOOSE k \in 1..n :
                            dec.digits[k] # 0 /\ \A j \in (k + 1)..n : dec.digits[j] = 0
            IN Decimal(SubSeq(dec.digits, 1, last), dec.exp + (n - last))

Chars(digits) == [k \in 1..Len(digits) |-> AsciiDigit[digits[k] + 1]]

\* a decimal written out: <<integer digits, fraction digits>>
Positional(dec) ==
    LET n == Len(dec.digits)
    IN IF dec.digits = <<>> THEN << <<"0">>, <<>> >>
       ELSE IF dec.exp >= 0 THEN <<Chars(dec.digits \o Zeros(dec.exp)), <<>> >>
       ELSE IF n + dec.exp > 0
            THEN <<Chars(SubSeq(dec.digits, 1, n + dec.exp)),
                   Chars(SubSeq(dec.digits, n + dec.exp + 1, n))>>
       ELSE << <<"0">>, Chars(Zeros(0 - (n + dec.exp)) \o dec.digits) >>

Infinity == << <<"i", "n", "f">>, <<>> >>

\* float(ip + "." + fp) for two runs of decimal digits: the nearest double,
\* as the decimal repr() shows for it. A numeral of at most 15 digits is
\* that decimal itself (DBL_DIG).
Float(ip, fp) ==
    LET digits == [k \in 1..(Len(ip) + Len(fp)) |->
                     DigitValue[IF k <= Len(ip) THEN ip[k] ELSE fp[k - Len(ip)]]]
        Shown(d) ==
            IF d.kind = "inf" THEN Infinity
            ELSE IF d.kind = "zero" THEN Positional(Decimal(<<>>, 0))
            ELSE Positional(DropZeros(Shortest(d, ExactDecimal(d))))
        Read(given) ==
            IF Len(ip) + Len(fp) <= 15 THEN Positional(DropZeros(given))
            ELSE Shown(DoubleOf(given))
    IN Read(Decimal(BigTrim(digits), 0 - Len(fp)))

\* ------------------------------------------------------------ extraction
\* An element lookup: found or not (NoSuchElementException), with its text.
Missing == [found |-> FALSE, text |-> <<>>]
Elem(t) == [found |-> TRUE, text |-> t]

TITLE_SELECTORS == <<"a.title-link.js-item-url", ".minicard-item__title", "h2">>

RECURSIVE NameFrom(_, _)
NameFrom(card, i) ==
    IF i > Len(TITLE_SELECTORS) THEN <<>>
    ELSE IF card.title[i].found /\ Strip(card.title[i].text, Whitespace) # <<>>
         THEN Strip(card.title[i].text, Whitespace)
         ELSE NameFrom(card, i + 1)

_extract_name(card) == NameFrom(card, 1)

\* re.search(r"(\d+[.,]\d+|\d+)", text): leftmost match, first alternative
\* preferred, digit runs greedy.
DigitRun(s) ==
    IF \A k \in 1..Len(s) : s[k] \in Digits THEN s
    ELSE SubSeq(s, 1, (CHOOSE k \in 1..Len(s) :
                          s[k] \notin Digits /\ \A j \in 1..(k - 1) : s[j] \in Digits) - 1)

SkipToDigit(s) ==
    IF \A k \in 1..Len(s) : s[k] \notin Digits THEN <<>>
    ELSE SubSeq(s, CHOOSE k \in 1..Len(s) :
                       s[k] \in Digits /\ \A j \in 1..(k - 1) : s[j] \notin Digits,
                Len(s))

NoRating == <<>>

_extract_rating(card) ==
    LET Fraction(rest) ==
            IF rest # <<>> /\ Head(rest) \in {".", ","}
            THEN DigitRun(Tail(rest)) ELSE <<>>
        Number(from, ip) ==
            Float(ip, Fraction(SubSeq(from, Len(ip) + 1, Len(from))))
        Match(from) ==
            IF from = <<>> THEN NoRating ELSE Number(from, DigitRun(from))
    IN IF ~card.rating.found THEN NoRating
       ELSE Match(SkipToDigit(Strip(card.rating.text, Whitespace)))

\* A filter that does not look at what it has already kept.
Dedup_KeepDuplicates(links, seen) ==
    SelectSeq([x \in 1..Len(links) |-> Strip(links[x], SeparatorChars)],
              LAMBDA text : text # <<>>)

RECURSIVE Dedup(_, _)
Dedup(links, seen) ==
    LET Rest(text) ==
            IF text # <<>> /\ text \notin seen
            THEN <<text>> \o Dedup(Tail(links), seen \cup {text})
            ELSE Dedup(Tail(links), seen)
    IN IF links = <<>> THEN <<>>
       ELSE Rest(Strip(Head(links), SeparatorChars))

_extract_categories(card) == Dedup(card.links, {})

_parse_card(card) ==
    [name |-> _extract_name(card),
     rating |-> _extract_rating(card),
     categories |-> _extract_categories(card)]

\* "%02d" of an exponent
TwoDigits(n) == IF n < 10 THEN <<"0">> \o Str(n) ELSE Str(n)

\* repr() of a float, as pandas writes it: positional when the value is
\* 0.d1d2... * 10^p with -4 < p <= 16, in scientific notation otherwise.
FloatText(r) ==
    LET ip    == r[1]
        fp    == r[2]
        zeros == Len(fp) - Len(LStrip(fp, {"0"}))
        p     == IF ip # <<"0">> THEN Len(ip) ELSE 0 - zeros
        sig   == IF ip # <<"0">> THEN RStrip(ip \o fp, {"0"}) ELSE LStrip(fp, {"0"})
    IN IF r = Infinity THEN r[1]
       ELSE IF fp = <<>> /\ ip = <<"0">> THEN <<"0", ".", "0">>
       ELSE IF p > 0 - 4 /\ p <= 16
            THEN ip \o <<".">> \o (IF fp = <<>> THEN <<"0">> ELSE fp)
       ELSE <<Head(sig)>>
            \o (IF Len(sig) > 1 THEN <<".">> \o Tail(sig) ELSE <<>>)
            \o <<"e">>
            \o (IF p >= 1 THEN <<"+">> \o TwoDigits(p - 1)
                ELSE <<"-">> \o TwoDigits(1 - p))

PlaceRow(p) ==
    [Name |-> p.name,
     Rating |-> IF p.rating # NoRating THEN FloatText(p.rating) ELSE <<>>,
     Categories |-> IF p.categories # <<>>
                    THEN Join(<<" ", "|", " ">>, p.categories) ELSE <<>>]

df_from_places(places) == [i \in 1..Len(places) |-> PlaceRow(places[i])]

\* ------------------------------------------------------------- log lines
\* One line of self.logs: the f-string's template and the values put in it.
LogLine(kind, page, url, cards, added, total) ==
    [kind |-> kind, page |-> page, url |-> url,
     cards |-> cards, added |-> added, total |-> total]

LogOpened(page) == LogLine("opened", page, page_url(page), 0, 0, 0)
LogNote(kind, page) == LogLine(kind, page, <<>>, 0, 0, 0)
\* A success line that reports the page's count as the running total.
LogCards_PageTotal(page, cards, added, total) ==
    LogLine("cards", page, <<>>, cards, added, added)

LogCards(page, cards, added, total) == LogLine("cards", page, <<>>, cards, added, total)

\* ------------------------------------------------------ what the site serves
\* Three listing cards: one named by the first title selector, one named only
\* by the last selector after two blank ones, one with no name at all.
CardA ==
    [title  |-> <<Elem(<<" ", "a", "\n">>), Elem(<<"x">>), Missing>>,
     rating |-> Elem(<<"R", " ", "4", ",", "5", "0">>),
     links  |-> << <<"MIDDOT", " ", "p">>, <<"q", "-">>, <<" ", "p", " ">>, <<"-">> >>]
CardB ==
    [title  |-> <<Missing, Elem(<<" ", "\t">>), Elem(<<"b">>)>>,
     rating |-> Missing,
     links  |-> << >>]
CardBlank ==
    [title  |-> <<Missing, Elem(<<" ">>), Elem(<< >>)>>,
     rating |-> Elem(<<"n", "o">>),
     links  |-> << <<"q">> >>]

Cards == {CardA, CardB, CardBlank}

RECURSIVE SeqsUpTo(_, _)
SeqsUpTo(S, n) ==
    IF n = 0 THEN {<<>>}
    ELSE LET shorter == SeqsUpTo(S, n - 1)
         IN shorter \cup {Append(s, c) : s \in {t \in shorter : Len(t) = n - 1}, c \in S}

Min(a, b) == IF a < b THEN a ELSE b

\* ------------------------------------------------------------------ state
VARIABLES
    pc,          \* where main() / run() / _process_page() stands; at the end
                 \* "done", or "build_raised", "raised" (out of run() after its
                 \* finally block) or "main_raised"; "legacy_..." while the
                 \* legacy script runs
    headless,    \* ParserConfig.headless
    page,        \* the loop variable of run()
    places,      \* self.places
    logs,        \* self.logs
    driver,      \* self._driver: "none" or "chrome"
    session,     \* the browser process: "none", "live" or "quit"
    quitCalls,   \* calls of driver.quit() so far
    quitRaised,  \* what the last driver.quit() raised: "none", "Exception" or
                 \* "BaseException" (KeyboardInterrupt, SystemExit, GeneratorExit)
    lateOps,     \* browser operations issued while the session was not live
    exc,         \* an exception has left the body of the page loop
    i,           \* attempt counter of the polling loop in progress
    sel,         \* index of the container selector being waited for
    cards,       \* the local 'cards' of _process_page
    nav,         \* pages passed to driver.get, in order
    detEvals,    \* looks at the page source by the _handle_protect_screen call
                 \* in progress, or by the last one if it returned False
    refreshes,   \* driver.refresh() calls, counted likewise
    served,      \* listings the catalogue has shown so far
    challenged,  \* pages that opened on a challenge screen so far
    obs,         \* what the current page showed: last detector result, container
    site,        \* the card list each collected page showed, by page
    partials,    \* page suffix -> the partial CSV and log written for it: the
                 \* whole rows and whole lines the file holds, and whether the
                 \* file ends with a part of the next one (csvCut, logCut: a
                 \* write cut short after some of its bytes, anywhere inside
                 \* the header, a row or a line, even inside a character)
    final,       \* the canonical CSV and log, likewise, and how often each
                 \* was written
    events,      \* what _process_page did for the current page, in order, from
                 \* driver.get to the container wait; forgotten once the page
                 \* is scrolled
    urlCall,     \* a call of page_url on its own: which page_url, the base URL,
                 \* the page number, the result
    twin,        \* the two scripts run on one site: what the site showed page
                 \* by page, which of two title elements comes first in its
                 \* cards, what scrape_all_pages() returned for it
    catCall      \* calls of _extract_categories on one card: the texts of its
                 \* feature links, the number of calls, the first and the
                 \* last result

scraperVars == <<pc, headless, page, places, logs, driver, session, quitCalls,
                 quitRaised, lateOps, exc, i, sel, cards, nav, detEvals,
                 refreshes, served, challenged, obs, site, partials, final,
                 events>>

vars == <<pc, headless, page, places, logs, driver, session, quitCalls,
          quitRaised, lateOps, exc, i, sel, cards, nav, detEvals, refreshes,
          served, challenged, obs, site, partials, final, events, urlCall,
          twin, catCall>>

Suffixes == {Suffix(k) : k \in 1..TotalPages}

\* Files of the output directory. 'writes' counts the writes of this run; a
\* file left by an earlier run has content and no write yet.
StaleRow == [Name |-> <<"o", "l", "d">>, Rating |-> <<>>, Categories |-> <<>>]
StaleLine == LogNote("stale", 0)
NoPartial ==
    [writes |-> 0, csv |-> <<>>, csvCut |-> FALSE, log |-> <<>>, logCut |-> FALSE]
StalePartial ==
    [writes |-> 0, csv |-> <<StaleRow>>, csvCut |-> FALSE,
     log |-> <<StaleLine>>, logCut |-> FALSE]
NoFinal ==
    [csvWrites |-> 0, csv |-> <<>>, csvCut |-> FALSE,
     logWrites |-> 0, log |-> <<>>, logCut |-> FALSE]
StaleFinal ==
    [csvWrites |-> 0, csv |-> <<StaleRow>>, csvCut |-> FALSE,
     logWrites |-> 0, log |-> <<StaleLine>>, logCut |-> FALSE]

NoObs == [det |-> "none", container |-> "none"]
NotShown == [collected |-> FALSE, cards |-> <<>>]
Shown(cs) == [collected |-> TRUE, cards |-> cs]

CONTAINER_SELECTORS == <<"ul.js-results-group", "div.catalog-list", "div.results-container">>

\* One thing _process_page did: the call, its argument, what came back.
Ev(op, arg, res) == [op |-> op, arg |-> arg, res |-> res]

\* page_url not called yet, for a base URL
NotCalled(base) == [impl |-> "none", city_url |-> base, page |-> 0, url |-> <<>>]

\* ZoonScraper(config) constructed, run() not yet called
Constructed ==
    /\ pc = "start"
    /\ headless \in BOOLEAN
    /\ page = 0
    /\ places = <<>>
    /\ logs = <<>>
    /\ driver = "none"
    /\ session = "none"
    /\ quitCalls = 0
    /\ quitRaised = "none"
    /\ lateOps = 0
    /\ exc = FALSE
    /\ i = 0
    /\ sel = 0
    /\ cards = <<>>
    /\ nav = <<>>
    /\ detEvals = 0
    /\ refreshes = 0
    /\ served = 0
    /\ challenged = 0
    /\ obs = NoObs
    /\ site = [k \in 1..TotalPages |-> NotShown]
    /\ \E old \in BOOLEAN :
         /\ partials = [x \in Suffixes |-> IF old THEN StalePartial ELSE NoPartial]
         /\ final = IF old THEN StaleFinal ELSE NoFinal
    /\ events = <<>>

\* scrape_all_pages() not yet returned, and what it returned: the last value
\* of its loop variable, whether the loop was left by a break, places, logs
\* a site for the two scripts, neither of them run on it yet
NoRuns(script, h2First) ==
    [script |-> script, h2First |-> h2First,
     legacy |-> [ran |-> FALSE, last |-> 0, broke |-> FALSE,
                 places |-> <<>>, logs |-> <<>>]]

\* a card with the given feature links, _extract_categories not yet called
NotExtracted(links) == [links |-> links, calls |-> 0, first |-> <<>>, last |-> <<>>]

Init ==
    /\ Constructed
    /\ urlCall = NotCalled(CityUrl)
    /\ twin = NoRuns(<<>>, FALSE)
    /\ catCall = NotExtracted(<<>>)

\* A call on the local 'driver' of run(): counted when the session is gone.
BrowserOp == lateOps' = IF session = "live" THEN lateOps ELSE lateOps + 1

\* A loop that ignores what _process_page returned.
AfterPage_NoBreak(ok) == "loop"

\* run(): the loop leaves on the first page that returns False.
AfterPage(ok) == IF ok THEN "loop" ELSE "finally"

\* A loop without the try/finally: the exception leaves run() at once.
AfterFault_NoFinally == "raised"

\* run(): an exception in the loop body goes through the finally block.
AfterFault == "finally"

\* What _build_driver can come to: webdriver.Chrome() raises and no browser
\* runs; the browser runs and one of the execute_cdp_cmd calls raises; the
\* driver is returned.
BuildOutcomes == {"no_browser", "cdp_raised", "built"}

\* run(), line 148: _ensure_driver. What _build_driver raises leaves run()
\* before its try block: close() is not called, self._driver is still None,
\* and a browser that was started stays.
Start ==
    /\ pc = "start"
    /\ \E built \in BuildOutcomes :
         IF driver # "none"
         THEN pc' = "loop" /\ UNCHANGED <<driver, session>>
         ELSE /\ session' = IF built = "no_browser" THEN "none" ELSE "live"
              /\ driver' = IF built = "built" THEN "chrome" ELSE "none"
              /\ pc' = IF built = "built" THEN "loop" ELSE "build_raised"
    /\ UNCHANGED <<events, catCall, twin, urlCall, headless, page, places, logs, quitCalls, quitRaised, lateOps,
                   exc, i, sel, cards, nav, detEvals, refreshes, served,
                   challenged, partials, final, obs, site>>

\* A range() with step 2.
NextPage_Skip(p) == p + 2

\* for page in range(1, total_pages + 1)
NextPage(p) == p + 1

LoopNext ==
    /\ pc = "loop"
    /\ IF NextPage(page) <= TotalPages
       THEN page' = NextPage(page) /\ pc' = "open"
       ELSE page' = page /\ pc' = "finally"
    /\ UNCHANGED <<events, catCall, twin, urlCall, headless, places, logs, driver, session, quitCalls,
                   quitRaised, lateOps, exc, i, sel, cards, nav, detEvals,
                   refreshes, served, challenged, partials, final, obs, site>>

\* _process_page, lines 221-226: log the URL, driver.get, initial sleep
OpenPage ==
    /\ pc = "open"
    /\ logs' = Append(logs, LogOpened(page))
    /\ nav' = Append(nav, page)
    /\ BrowserOp
    /\ detEvals' = 0
    /\ refreshes' = 0
    /\ obs' = NoObs
    /\ events' = <<Ev("get", "", ""), Ev("sleep", "initial_sleep", "")>>
    /\ pc' = "protect"
    /\ UNCHANGED <<catCall, twin, urlCall, headless, page, places, driver, session, quitCalls,
                   quitRaised, exc, i, sel, cards, served, challenged,
                   partials, final, site>>

\* What a look at the page source told the handler.
Verdict(html) == IF _is_protect_screen(html) THEN "challenge" ELSE "clear"

\* _handle_protect_screen, lines 253-257: the first look at the page
ProtectFirst ==
    /\ pc = "protect"
    /\ \E html \in HtmlSamples :
         /\ _is_protect_screen(html) => challenged < MaxChallenged
         /\ obs' = [obs EXCEPT !.det = Verdict(html)]
         /\ events' = Append(events, Ev("check", "", Verdict(html)))
         /\ IF ~_is_protect_screen(html)
            THEN /\ pc' = "wait"
                 /\ sel' = 1
                 /\ detEvals' = 0
                 /\ UNCHANGED <<logs, i, challenged>>
            ELSE /\ logs' = Append(logs, LogNote("protect_wait", page))
                 /\ i' = 0
                 /\ challenged' = challenged + 1
                 /\ pc' = "poll"
                 /\ sel' = sel
                 /\ detEvals' = detEvals + 1
    /\ BrowserOp
    /\ UNCHANGED <<catCall, twin, urlCall, headless, page, places, driver, session, quitCalls,
                   quitRaised, exc, cards, nav, refreshes, served, partials,
                   final, site>>

\* A retry loop that does not count its attempts.
NextAttempt_Stuck(n) == n

\* the step of a range() loop
NextAttempt(n) == n + 1

\* lines 258-261: one automatic poll
PollCheck ==
    /\ pc = "poll"
    /\ i < ProtectPollAttempts
    /\ \E html \in HtmlSamples :
         /\ obs' = [obs EXCEPT !.det = Verdict(html)]
         /\ events' = events \o <<Ev("sleep", "protect_poll_delay", ""),
                                  Ev("check", "", Verdict(html))>>
         /\ IF ~_is_protect_screen(html)
            THEN pc' = "wait" /\ sel' = 1 /\ i' = 0 /\ detEvals' = 0
            ELSE pc' = "poll" /\ sel' = sel /\ i' = NextAttempt(i)
                 /\ detEvals' = detEvals + 1
    /\ BrowserOp
    /\ UNCHANGED <<catCall, twin, urlCall, headless, page, places, logs, driver, session, quitCalls,
                   quitRaised, exc, cards, nav, refreshes, served, challenged,
                   partials, final, site>>

\* A handler that asks the operator whatever the mode.
MayPrompt_Always(h) == TRUE

\* lines 263-266: a headless run stops instead of asking the operator
MayPrompt(h) == ~h

\* lines 263-269: the polls are used up
PollExhausted ==
    /\ pc = "poll"
    /\ i >= ProtectPollAttempts
    /\ IF ~MayPrompt(headless)
       THEN /\ logs' = Append(logs, LogNote("protect_stop", page))
            /\ pc' = AfterPage(FALSE)
            /\ events' = events
       ELSE /\ logs' = Append(logs, LogNote("manual_prompt", page))
            /\ pc' = "input"
            /\ events' = Append(events, Ev("input", "", "waiting"))
    /\ i' = 0
    /\ UNCHANGED <<catCall, twin, urlCall, headless, page, places, driver, session, quitCalls,
                   quitRaised, lateOps, exc, sel, cards, nav, detEvals,
                   refreshes, served, challenged, partials, final, obs, site>>

\* lines 270-273: input(); an error of input() is swallowed
OperatorConfirm ==
    /\ pc = "input"
    /\ pc' = "manual"
    /\ events' = Append(events, Ev("input", "", "returned"))
    /\ i' = 0
    /\ UNCHANGED <<catCall, twin, urlCall, headless, page, places, logs, driver, session, quitCalls,
                   quitRaised, lateOps, exc, sel, cards, nav, detEvals,
                   refreshes, served, challenged, partials, final, obs, site>>

\* A manual loop that reloads the page after every re-check.
AfterRecheck_ReloadAlways(verdict) == <<Ev("refresh", "", "")>>

\* A manual loop that never reloads the page.
AfterRecheck_NoReload(verdict) == <<>>

\* lines 277-279: what follows a manual re-check: return True on a clear page,
\* driver.refresh() on a challenge
AfterRecheck(verdict) ==
    IF verdict = "challenge" THEN <<Ev("refresh", "", "")>> ELSE <<>>

\* lines 275-279: one manual re-check, with the reload that follows a failed one
ManualCheck ==
    /\ pc = "manual"
    /\ i < ProtectManualRetryAttempts
    /\ \E html \in HtmlSamples :
         /\ obs' = [obs EXCEPT !.det = Verdict(html)]
         /\ events' = events
                \o <<Ev("sleep", "protect_manual_retry_delay", ""),
                     Ev("check", "", Verdict(html))>>
                \o AfterRecheck(Verdict(html))
         /\ IF ~_is_protect_screen(html)
            THEN pc' = "wait" /\ sel' = 1 /\ i' = 0
                 /\ refreshes' = 0 /\ detEvals' = 0
            ELSE pc' = "manual" /\ sel' = sel /\ i' = NextAttempt(i)
                 /\ refreshes' = refreshes + Len(AfterRecheck(Verdict(html)))
                 /\ detEvals' = detEvals + 1
    /\ BrowserOp
    /\ UNCHANGED <<catCall, twin, urlCall, headless, page, places, logs, driver, session, quitCalls,
                   quitRaised, exc, cards, nav, served, challenged, partials,
                   final, site>>

\* lines 281-285: the manual re-checks are used up
ManualExhausted ==
    /\ pc = "manual"
    /\ i >= ProtectManualRetryAttempts
    /\ logs' = Append(logs, LogNote("protect_manual_stop", page))
    /\ pc' = AfterPage(FALSE)
    /\ i' = 0
    /\ UNCHANGED <<events, catCall, twin, urlCall, headless, page, places, driver, session, quitCalls,
                   quitRaised, lateOps, exc, sel, cards, nav, detEvals,
                   refreshes, served, challenged, partials, final, obs, site>>

\* A container wait that gives up after its first timeout.
MoreSelectors_None(n) == FALSE

\* lines 297-304: "for by, selector in candidates", "except TimeoutException:
\* continue": after a timeout on candidate n the loop has a next candidate
MoreSelectors(n) == n < Len(CONTAINER_SELECTORS)

\* _wait_cards_container: the wait for one candidate selector
WaitSelector ==
    /\ pc = "wait"
    /\ \E present \in BOOLEAN :
         /\ events' = Append(events, Ev("wait", CONTAINER_SELECTORS[sel],
                                        IF present THEN "found" ELSE "timeout"))
         /\ IF present
            THEN /\ pc' = "scroll" /\ sel' = 0 /\ logs' = logs
                 /\ obs' = [obs EXCEPT !.container = "found"]
            ELSE IF MoreSelectors(sel)
                 THEN pc' = "wait" /\ sel' = sel + 1 /\ logs' = logs /\ obs' = obs
                 ELSE /\ logs' = Append(logs, LogNote("no_container", page))
                      /\ pc' = AfterPage(FALSE)
                      /\ sel' = 0
                      /\ obs' = [obs EXCEPT !.container = "missing"]
    /\ BrowserOp
    /\ UNCHANGED <<catCall, twin, urlCall, headless, page, places, driver, session, quitCalls,
                   quitRaised, exc, i, cards, nav, detEvals, refreshes, served,
                   challenged, partials, final, site>>

\* _gentle_scroll
GentleScroll ==
    /\ pc = "scroll"
    /\ BrowserOp
    /\ events' = <<>>
    /\ pc' = "collect"
    /\ UNCHANGED <<catCall, twin, urlCall, headless, page, places, logs, driver, session, quitCalls,
                   quitRaised, exc, i, sel, cards, nav, detEvals, refreshes,
                   served, challenged, partials, final, obs, site>>

\* _collect_cards: the first card selector with a non-empty match set
_collect_cards(matches) ==
    IF matches[1] # <<>> THEN matches[1]
    ELSE IF matches[2] # <<>> THEN matches[2]
    ELSE <<>>

\* An emptiness test that lets an empty list through.
HasCards_Always(found) == TRUE

\* line 237: the truth value of the collected list
HasCards(found) == found # <<>>

\* lines 236-240: collect the cards, stop on none
CollectCards ==
    /\ pc = "collect"
    /\ \E m1, m2 \in SeqsUpTo(Cards, Min(MaxCards, MaxCatalogue - served)) :
         LET found == _collect_cards(<<m1, m2>>)
         IN /\ cards' = found
            /\ served' = served + Len(found)
            /\ site' = [site EXCEPT ![page] = Shown(found)]
            /\ IF HasCards(found)
               THEN /\ logs' = logs
                    /\ pc' = "append"
               ELSE /\ logs' = Append(logs, LogNote("no_cards", page))
                    /\ pc' = AfterPage(FALSE)
    /\ BrowserOp
    /\ UNCHANGED <<events, catCall, twin, urlCall, headless, page, places, driver, session, quitCalls,
                   quitRaised, exc, i, sel, nav, detEvals, refreshes,
                   challenged, partials, final, obs>>

\* An accumulator that starts a new list for every page.
_append_cards_PageOnly(ps, cs) ==
    SelectSeq([x \in 1..Len(cs) |-> _parse_card(cs[x])],
              LAMBDA place : place.name # <<>>)

\* An accumulator without the name filter.
_append_cards_KeepAll(ps, cs) ==
    ps \o [x \in 1..Len(cs) |-> _parse_card(cs[x])]

\* _append_cards: the places after the cards are parsed and filtered
RECURSIVE _append_cards(_, _)
_append_cards(ps, cs) ==
    LET Kept(place) == IF place.name # <<>> THEN Append(ps, place) ELSE ps
    IN IF cs = <<>> THEN ps
       ELSE _append_cards(Kept(_parse_card(Head(cs))), Tail(cs))

\* lines 242-246: parse the cards, log the counts
AppendCards ==
    /\ pc = "append"
    /\ LET Parsed(after) ==
               /\ places' = after
               /\ logs' = Append(logs, LogCards(page, Len(cards),
                                                Len(after) - Len(places), Len(after)))
       IN Parsed(_append_cards(places, cards))
    /\ BrowserOp
    /\ pc' = "save"
    /\ UNCHANGED <<events, catCall, twin, urlCall, headless, page, driver, session, quitCalls, quitRaised, exc,
                   i, sel, cards, nav, detEvals, refreshes, served, challenged,
                   partials, final, obs, site>>

\* A save that opens the files for appending.
_save_partial_Append(old, ps, ls) ==
    [writes |-> old.writes + 1,
     csv |-> old.csv \o df_from_places(ps), csvCut |-> FALSE,
     log |-> old.log \o ls, logCut |-> FALSE]

\* _save_partial: the two files of a page after the write
_save_partial(old, ps, ls) ==
    [writes |-> old.writes + 1, csv |-> df_from_places(ps), csvCut |-> FALSE,
     log |-> ls, logCut |-> FALSE]

SavePartial ==
    /\ pc = "save"
    /\ partials' = [partials EXCEPT
                      ![Suffix(page)] = _save_partial(@, places, logs)]
    /\ pc' = "sleep"
    /\ UNCHANGED <<events, catCall, twin, urlCall, headless, page, places, logs, driver, session, quitCalls,
                   quitRaised, lateOps, exc, i, sel, cards, nav, detEvals,
                   refreshes, served, challenged, final, obs, site>>

\* lines 249-250: the pause between pages, return True
PageSleep ==
    /\ pc = "sleep"
    /\ pc' = AfterPage(TRUE)
    /\ cards' = <<>>
    /\ UNCHANGED <<events, catCall, twin, urlCall, headless, page, places, logs, driver, session, quitCalls,
                   quitRaised, lateOps, exc, i, sel, nav, detEvals, refreshes,
                   served, challenged, partials, final, obs, site>>

\* What the step at pc had done when the exception left it.
FaultLeaves(lg, nv, ps, pt, st, ch) ==
    /\ logs' = lg
    /\ nav' = nv
    /\ places' = ps
    /\ partials' = pt
    /\ site' = st
    /\ challenged' = ch

\* At any position of the loop of run() a call can raise what nothing in
\* _process_page catches (a WebDriverException, an OSError of print or of a
\* file, Ctrl-C). The frames of _process_page and its callees unwind: their
\* locals and what they had seen of the page are gone; what the interrupted
\* step had already put into self.logs, self.places and the files stays.
Fault ==
    /\ pc \in {"loop", "open", "protect", "poll", "manual", "input", "wait",
              "scroll", "collect", "append", "save", "sleep"}
    /\ \/ FaultLeaves(logs, nav, places, partials, site, challenged)
       \* line 223 done, driver.get not reached; driver.get or the sleep raised
       \/ /\ pc = "open"
          /\ \E got \in BOOLEAN :
               FaultLeaves(Append(logs, LogOpened(page)),
                           IF got THEN Append(nav, page) ELSE nav,
                           places, partials, site, challenged)
       \* line 256 done, the print of line 257 raised
       \/ /\ pc = "protect"
          /\ challenged < MaxChallenged
          /\ FaultLeaves(Append(logs, LogNote("protect_wait", page)), nav, places,
                         partials, site, challenged + 1)
       \* line 264 or 268 done, the print that follows raised
       \/ /\ pc = "poll"
          /\ i >= ProtectPollAttempts
          /\ FaultLeaves(Append(logs, LogNote(IF MayPrompt(headless)
                                              THEN "manual_prompt"
                                              ELSE "protect_stop", page)),
                         nav, places, partials, site, challenged)
       \* line 281 done, the print of line 284 raised
       \/ /\ pc = "manual"
          /\ i >= ProtectManualRetryAttempts
          /\ FaultLeaves(Append(logs, LogNote("protect_manual_stop", page)), nav,
                         places, partials, site, challenged)
       \* line 305 done, the print of line 306 raised
       \/ /\ pc = "wait"
          /\ ~MoreSelectors(sel)
          /\ FaultLeaves(Append(logs, LogNote("no_container", page)), nav, places,
                         partials, site, challenged)
       \* no cards: line 238 done, the print of line 239 raised
       \/ /\ pc = "collect"
          /\ FaultLeaves(Append(logs, LogNote("no_cards", page)), nav, places,
                         partials, [site EXCEPT ![page] = Shown(<<>>)], challenged)
       \* _append_cards got through the first k cards
       \/ /\ pc = "append"
          /\ \E k \in 1..Len(cards) :
               FaultLeaves(logs, nav, _append_cards(places, SubSeq(cards, 1, k)),
                           partials, site, challenged)
       \* line 243 done, the print of line 246 raised
       \/ /\ pc = "append"
          /\ LET Parsed(after) ==
                     FaultLeaves(Append(logs, LogCards(page, Len(cards),
                                                       Len(after) - Len(places),
                                                       Len(after))),
                                 nav, after, partials, site, challenged)
             IN Parsed(_append_cards(places, cards))
       \* line 378: to_csv opened the CSV for writing, which empties it, and
       \* raised after some of its bytes, or none, were written: the file
       \* holds the first n rows whole, not all of them, and may end inside
       \* the header or the next row
       \/ /\ pc = "save"
          /\ LET Cut(rows) ==
                     \E n \in 0..Len(rows), inside \in BOOLEAN :
                         /\ n < Len(rows) \/ n = 0
                         /\ FaultLeaves(logs, nav, places,
                                [partials EXCEPT ![Suffix(page)].csv = SubSeq(rows, 1, n),
                                                 ![Suffix(page)].csvCut = inside],
                                site, challenged)
             IN Cut(df_from_places(places))
       \* line 378 done, write_text of line 379 could not open the log: the
       \* CSV is the new one, the log file the old one
       \/ /\ pc = "save"
          /\ LET CsvOnly(old) ==
                     [_save_partial(old, places, old.log) EXCEPT !.logCut = old.logCut]
             IN FaultLeaves(logs, nav, places,
                    [partials EXCEPT ![Suffix(page)] = CsvOnly(@)],
                    site, challenged)
       \* line 378 done, write_text opened the log for writing, which empties
       \* it, and raised after some of the bytes of "\n".join(logs), or none,
       \* were written: the file holds the first n lines whole, not all of
       \* them, and may end inside the next line; or both files done and the
       \* print raised
       \/ /\ pc = "save"
          /\ \E n \in 0..Len(logs), inside \in BOOLEAN :
               /\ inside => n < Len(logs)
               /\ LET LogCutAt(old) ==
                          [_save_partial(old, places, SubSeq(logs, 1, n)) EXCEPT !.logCut = inside]
                  IN FaultLeaves(logs, nav, places,
                         [partials EXCEPT ![Suffix(page)] = LogCutAt(@)],
                         site, challenged)
    /\ exc' = TRUE
    /\ pc' = AfterFault
    /\ i' = 0 /\ sel' = 0 /\ cards' = <<>>
    /\ detEvals' = 0 /\ refreshes' = 0 /\ obs' = NoObs
    /\ events' = <<>>
    /\ UNCHANGED <<catCall, twin, urlCall, headless, page, driver, session, quitCalls,
                   quitRaised, lateOps, served, final>>

\* close(): nothing to do without a driver
CloseNeeded(d) == d # "none"

\* A main() that returns without the final save.
AfterClose_NoSave(e) == IF e THEN "raised" ELSE "done"

\* run() re-raises what the loop raised, or returns to main()
AfterClose(e) == IF e THEN "raised" ELSE "save_csv"

\* What driver.quit() can raise.
QuitOutcomes == {"none", "Exception", "BaseException"}

\* A close() without the except clause: whatever quit() raises leaves close().
CloseRaises_Propagate(raised) == raised # "none"

\* close(), lines 160-163: "except Exception: pass" catches an Exception; a
\* KeyboardInterrupt, SystemExit or GeneratorExit leaves close()
CloseRaises(raised) == raised = "BaseException"

\* run(): the finally block, then return or re-raise. close() sets
\* self._driver to None in its own finally, whatever quit() did.
Close ==
    /\ pc = "finally"
    /\ IF CloseNeeded(driver)
       THEN /\ \E raised \in QuitOutcomes :
                 /\ quitRaised' = raised
                 /\ pc' = AfterClose(exc \/ CloseRaises(raised))
            /\ quitCalls' = quitCalls + 1
            /\ session' = "quit"
            /\ driver' = "none"
       ELSE /\ pc' = AfterClose(exc)
            /\ UNCHANGED <<quitRaised, quitCalls, session, driver>>
    /\ UNCHANGED <<events, catCall, twin, urlCall, headless, page, places, logs, lateOps, exc, i, sel, cards,
                   nav, detEvals, refreshes, served, challenged, partials,
                   final, obs, site>>

\* main(), lines 393-399 interrupted. to_csv or write_text raised before it
\* opened its file: the file is as it was. It raised after it opened the
\* file for writing, which empties it, after some of its bytes, or none,
\* were written: the file holds the first n rows or lines whole, not all of
\* them, and may end inside the header, the next row or the next line. Or
\* the file was written and what follows raised (write_text after to_csv,
\* a print after write_text).
MainFault ==
    /\ pc \in {"save_csv", "save_log"}
    /\ \/ final' = final
       \/ /\ pc = "save_csv"
          /\ LET Cut(rows) ==
                     \E n \in 0..Len(rows), inside \in BOOLEAN :
                         /\ n < Len(rows) \/ n = 0
                         /\ final' = [final EXCEPT !.csv = SubSeq(rows, 1, n),
                                                   !.csvCut = inside]
             IN Cut(df_from_places(places))
       \/ /\ pc = "save_csv"
          /\ final' = [final EXCEPT !.csv = df_from_places(places), !.csvCut = FALSE,
                                    !.csvWrites = @ + 1]
       \/ /\ pc = "save_log"
          /\ \E n \in 0..Len(logs), inside \in BOOLEAN :
               /\ n < Len(logs) \/ n = 0
               /\ final' = [final EXCEPT !.log = SubSeq(logs, 1, n),
                                         !.logCut = inside]
       \/ /\ pc = "save_log"
          /\ final' = [final EXCEPT !.log = logs, !.logCut = FALSE,
                                    !.logWrites = @ + 1]
    /\ pc' = "main_raised"
    /\ UNCHANGED <<events, catCall, twin, urlCall, headless, page, places, logs, driver, session, quitCalls,
                   quitRaised, lateOps, exc, i, sel, cards, nav, detEvals,
                   refreshes, served, challenged, partials, obs, site>>

\* main(), lines 393-394
MainSaveCsv ==
    /\ pc = "save_csv"
    /\ final' = [final EXCEPT !.csv = df_from_places(places), !.csvCut = FALSE,
                              !.csvWrites = @ + 1]
    /\ pc' = "save_log"
    /\ UNCHANGED <<events, catCall, twin, urlCall, headless, page, places, logs, driver, session, quitCalls,
                   quitRaised, lateOps, exc, i, sel, cards, nav, detEvals,
                   refreshes, served, challenged, partials, obs, site>>

\* main(), line 395
MainSaveLog ==
    /\ pc = "save_log"
    /\ final' = [final EXCEPT !.log = logs, !.logCut = FALSE, !.logWrites = @ + 1]
    /\ pc' = "done"
    /\ UNCHANGED <<events, catCall, twin, urlCall, headless, page, places, logs, driver, session, quitCalls,
                   quitRaised, lateOps, exc, i, sel, cards, nav, detEvals,
                   refreshes, served, challenged, partials, obs, site>>

Next ==
    \/ Start
    \/ LoopNext
    \/ OpenPage
    \/ ProtectFirst
    \/ PollCheck
    \/ PollExhausted
    \/ OperatorConfirm
    \/ ManualCheck
    \/ ManualExhausted
    \/ WaitSelector
    \/ GentleScroll
    \/ CollectCards
    \/ AppendCards
    \/ SavePartial
    \/ PageSleep
    \/ Fault
    \/ Close
    \/ MainSaveCsv
    \/ MainSaveLog
    \/ MainFault

Spec == Init /\ [][Next]_vars

\* ------------------------------------------------- page_url on its own
\* Base URLs: the default, and what can be made of a few pieces.
BaseUrls == SeqsUpTo({"/", "zoon.ru", "page-", "2"}, MaxBaseLen) \cup {CityUrl}

UrlInit ==
    /\ Constructed
    /\ urlCall \in {NotCalled(b) : b \in BaseUrls}
    /\ twin = NoRuns(<<>>, FALSE)
    /\ catCall = NotExtracted(<<>>)

\* config.page_url(k) of a ParserConfig with the base URL drawn
ConfigPageUrl ==
    /\ \E k \in 1..MaxUrlPage :
         urlCall' = [impl |-> "config", city_url |-> urlCall.city_url, page |-> k,
                     url |-> ParserConfig_page_url(urlCall.city_url, k)]
    /\ UNCHANGED <<scraperVars, twin, catCall>>

\* page_url(n) of the legacy script, whose base URL is the module constant
LegacyPageUrl ==
    /\ urlCall.city_url = CITY_URL
    /\ \E n \in 1..MaxUrlPage :
         urlCall' = [impl |-> "legacy", city_url |-> CITY_URL, page |-> n,
                     url |-> legacy_page_url(n)]
    /\ UNCHANGED <<scraperVars, twin, catCall>>

UrlNext == ConfigPageUrl \/ LegacyPageUrl

UrlSpec == UrlInit /\ [][UrlNext]_vars

\* ------------------------------------- the two scripts on the same site
\* What one page of the site shows to whoever scrapes it: the page source at
\* each successive look of the detector (the last one stays), whether each
\* container selector resolves, what each card selector matches.
PageShows(html, containers, matches) ==
    [html |-> html, containers |-> containers, matches |-> matches]

ClearHtml == <<"<", "u", "l", ">">>
ChallengeHtml == <<"<", "b", ">", "C", "h", "e", "c", "k", "i", "n", "g", " ", "Y", "o", "u", "r", " ", "B", "r", "o", "w", "s", "e", "r">>

\* What a page can show. Page sources over time: clear at once; a challenge
\* that clears at the first poll; one that clears only after
\* ProtectPollAttempts polls; one that stays. Containers: the last selector
\* resolves, or none does. Card selectors: no match; the first matches a
\* card; only the second matches; both match.
PagesShown ==
    {PageShows(h, c, m) :
        h \in { <<ClearHtml>>,
                <<ChallengeHtml, ClearHtml>>,
                [j \in 1..(ProtectPollAttempts + 2) |->
                    IF j <= ProtectPollAttempts + 1 THEN ChallengeHtml ELSE ClearHtml],
                <<ChallengeHtml>> },
        c \in {<<FALSE, FALSE, TRUE>>, <<FALSE, FALSE, FALSE>>},
        m \in { << <<>>, <<>> >>,
                << <<CardA>>, <<>> >>,
                << <<>>, <<CardB, CardA>> >>,
                << <<CardBlank>>, <<CardA>> >> }}

\* Past the pages drawn the catalogue is over: a clear page with its
\* container and no card.
PageAt(script, p) ==
    IF p <= Len(script) THEN script[p]
    ELSE PageShows(<<ClearHtml>>, <<TRUE, TRUE, TRUE>>, << <<>>, <<>> >>)

\* driver.page_source at the j-th look of the detector on a page
SourceAt(o, j) == o.html[Min(j, Len(o.html))]

\* ---- zoon_tomsk_restaurants.py
LEGACY_KEYS ==
    { << "U+043C", "U+044B", " ", "U+043F", "U+0440", "U+043E", "U+0432",
         "U+0435", "U+0440", "U+044F", "U+0435", "U+043C", ",", " ",
         "U+0447", "U+0442", "U+043E", " ", "U+0432", "U+044B", " ",
         "U+043D", "U+0435", " ", "U+0440", "U+043E", "U+0431", "U+043E",
         "U+0442" >>,
      << "c", "h", "e", "c", "k", "i", "n", "g", " ", "y", "o", "u", "r",
         " ", "b", "r", "o", "w", "s", "e", "r" >>,
      << "y", "o", "u", " ", "w", "i", "l", "l", " ", "b", "e", " ", "r",
         "e", "d", "i", "r", "e", "c", "t", "e", "d" >>,
      << "c", "l", "o", "u", "d", "f", "l", "a", "r", "e" >>,
      << "U+043F", "U+043E", "U+0434", "U+043E", "U+0436", "U+0434",
         "U+0438", "U+0442", "U+0435", " ", "U+043D", "U+0435", "U+0441",
         "U+043A", "U+043E", "U+043B", "U+044C", "U+043A", "U+043E", " ",
         "U+0441", "U+0435", "U+043A", "U+0443", "U+043D", "U+0434" >> }

is_protect_screen(html) ==
    LET source == Lower(html)
    IN \E k \in LEGACY_KEYS : Contains(source, k)

\* for _ in range(8)
LEGACY_POLLS == 8

\* wait_cards_container: the candidates, in the order tried
candidates == <<"ul.js-results-group", "div.catalog-list", "div.results-container">>

collect_cards(matches) ==
    IF matches[1] # <<>> THEN matches[1]
    ELSE IF matches[2] # <<>> THEN matches[2]
    ELSE <<>>

\* parse_card, lines 146-152. The second lookup is by the selector list
\* ".minicard-item__title, h2": it returns the first element of the card, in
\* document order, that matches either. It is made only when the first
\* lookup found no element, and "except Exception" of line 151 catches
\* whatever Exception its find_element or its .text raises (oops: a
\* WebDriverException, a stale element): the name is then empty.
legacy_name(card, h2First, oops) ==
    IF card.title[1].found THEN Strip(card.title[1].text, Whitespace)
    ELSE IF oops THEN <<>>
    ELSE LET first == IF card.title[2].found /\ card.title[3].found
                      THEN (IF h2First THEN card.title[3] ELSE card.title[2])
                      ELSE IF card.title[2].found THEN card.title[2]
                      ELSE card.title[3]
         IN IF first.found THEN Strip(first.text, Whitespace) ELSE <<>>

\* parse_card: rating and categories are read as main.py reads them
parse_card(card, h2First, oops) ==
    [name |-> legacy_name(card, h2First, oops),
     rating |-> _extract_rating(card),
     categories |-> _extract_categories(card)]

\* lines 241-245; oops tells, card by card, whether the second name lookup
\* raised an Exception
RECURSIVE legacy_append(_, _, _, _)
legacy_append(ps, cs, h2First, oops) ==
    LET Kept(p) == IF p.name # <<>> THEN Append(ps, p) ELSE ps
    IN IF cs = <<>> THEN ps
       ELSE legacy_append(Kept(parse_card(Head(cs), h2First, Head(oops))),
                          Tail(cs), h2First, Tail(oops))

\* df_from_places of the legacy script: the same three columns
legacy_df_from_places(ps) == [x \in 1..Len(ps) |-> PlaceRow(ps[x])]

\* save_partial: the two files of a page after the write; they are the files
\* _save_partial of main.py writes (same directory, same names)
save_partial(old, ps, ls) ==
    [writes |-> old.writes + 1, csv |-> legacy_df_from_places(ps),
     csvCut |-> FALSE, log |-> ls, logCut |-> FALSE]

\* The page of the site the script is on.
PageNow == PageAt(twin.script, page)

\* ---- both scripts, one after the other, same mode, same site, same output
\* directory. First scrape_all_pages() of the legacy script, step by step;
\* the variables page, places, logs, cards and driver are its locals of the
\* same names. What the site shows to it, page by page, is kept in
\* twin.script.
TwinInit ==
    /\ pc = "legacy_start"
    /\ headless \in BOOLEAN
    /\ page = 0
    /\ places = <<>>
    /\ logs = <<>>
    /\ driver = "none"
    /\ session = "none"
    /\ quitCalls = 0
    /\ quitRaised = "none"
    /\ lateOps = 0
    /\ exc = FALSE
    /\ i = 0
    /\ sel = 0
    /\ cards = <<>>
    /\ nav = <<>>
    /\ detEvals = 0
    /\ refreshes = 0
    /\ served = 0
    /\ challenged = 0
    /\ obs = NoObs
    /\ site = [k \in 1..TotalPages |-> NotShown]
    /\ \E old \in BOOLEAN :
         /\ partials = [x \in Suffixes |-> IF old THEN StalePartial ELSE NoPartial]
         /\ final = IF old THEN StaleFinal ELSE NoFinal
    /\ events = <<>>
    /\ urlCall = NotCalled(CityUrl)
    /\ twin \in {NoRuns(<<>>, h2First) : h2First \in BOOLEAN}
    /\ catCall = NotExtracted(<<>>)

\* lines 197-199: build_driver() is called before the try block; what it
\* raises leaves scrape_all_pages() with no quit()
LegacyStart ==
    /\ pc = "legacy_start"
    /\ \E built \in BuildOutcomes :
         /\ session' = IF built = "no_browser" THEN "none" ELSE "live"
         /\ driver' = IF built = "built" THEN "chrome" ELSE "none"
         /\ pc' = IF built = "built" THEN "legacy_loop" ELSE "legacy_raised"
    /\ places' = <<>>
    /\ logs' = <<>>
    /\ UNCHANGED <<headless, page, quitCalls, quitRaised, lateOps, exc, i,
                   sel, cards, nav, detEvals, refreshes, served, challenged,
                   obs, site, partials, final, events, urlCall, twin,
                   catCall>>

\* line 202: for page in range(1, TOTAL_PAGES + 1)
LegacyLoopNext ==
    /\ pc = "legacy_loop"
    /\ IF page + 1 <= TotalPages
       THEN page' = page + 1 /\ pc' = "legacy_open"
       ELSE page' = page /\ pc' = "legacy_finally"
    /\ UNCHANGED <<headless, places, logs, driver, session, quitCalls,
                   quitRaised, lateOps, exc, i, sel, cards, nav, detEvals,
                   refreshes, served, challenged, obs, site, partials, final,
                   events, urlCall, twin, catCall>>

\* lines 203-207: log the URL, driver.get, the first sleep. The site shows
\* its next page.
LegacyOpen ==
    /\ pc = "legacy_open"
    /\ IF page <= MaxScript
       THEN \E o \in PagesShown :
              /\ is_protect_screen(SourceAt(o, 1)) => challenged < MaxChallenged
              /\ Len(collect_cards(o.matches)) <= Min(MaxCards, MaxCatalogue - served)
              /\ twin' = [twin EXCEPT !.script = Append(@, o)]
       ELSE twin' = twin
    /\ logs' = Append(logs, LogLine("opened", page, legacy_page_url(page), 0, 0, 0))
    /\ nav' = Append(nav, page)
    /\ BrowserOp
    /\ detEvals' = 0
    /\ pc' = "legacy_protect"
    /\ UNCHANGED <<headless, page, places, driver, session, quitCalls,
                   quitRaised, exc, i, sel, cards, refreshes, served,
                   challenged, obs, site, partials, final, events, urlCall,
                   catCall>>

\* lines 209-212: the first look at the page source
LegacyProtect ==
    /\ pc = "legacy_protect"
    /\ detEvals' = 1
    /\ IF is_protect_screen(SourceAt(PageNow, 1))
       THEN /\ logs' = Append(logs, LogNote("protect_wait", page))
            /\ challenged' = challenged + 1
            /\ i' = 0
            /\ sel' = sel
            /\ pc' = "legacy_poll"
       ELSE /\ pc' = "legacy_wait"
            /\ sel' = 1
            /\ UNCHANGED <<logs, challenged, i>>
    /\ BrowserOp
    /\ UNCHANGED <<headless, page, places, driver, session, quitCalls,
                   quitRaised, exc, cards, nav, refreshes, served, obs, site,
                   partials, final, events, urlCall, twin, catCall>>

\* lines 213-217: one of the eight polls: sleep, look, break on a clear page
LegacyPoll ==
    /\ pc = "legacy_poll"
    /\ i < LEGACY_POLLS
    /\ detEvals' = detEvals + 1
    /\ IF is_protect_screen(SourceAt(PageNow, detEvals + 1))
       THEN pc' = "legacy_poll" /\ i' = i + 1 /\ sel' = sel
       ELSE pc' = "legacy_wait" /\ i' = 0 /\ sel' = 1
    /\ BrowserOp
    /\ UNCHANGED <<headless, page, places, logs, driver, session, quitCalls,
                   quitRaised, exc, cards, nav, refreshes, served,
                   challenged, obs, site, partials, final, events, urlCall,
                   twin, catCall>>

\* lines 218-220: the polls are over and none saw a clear page; a run with a
\* window asks the operator, and whatever the mode the page goes on
LegacyPollsOver ==
    /\ pc = "legacy_poll"
    /\ i >= LEGACY_POLLS
    /\ IF ~headless
       THEN /\ logs' = Append(logs, LogNote("manual_prompt", page))
            /\ pc' = "legacy_input"
            /\ sel' = sel
       ELSE /\ logs' = logs
            /\ pc' = "legacy_wait"
            /\ sel' = 1
    /\ i' = 0
    /\ UNCHANGED <<headless, page, places, driver, session, quitCalls,
                   quitRaised, lateOps, exc, cards, nav, detEvals, refreshes,
                   served, challenged, obs, site, partials, final, events,
                   urlCall, twin, catCall>>

\* lines 221-224: input(); an Exception of input() is swallowed
LegacyInput ==
    /\ pc = "legacy_input"
    /\ pc' = "legacy_wait"
    /\ sel' = 1
    /\ UNCHANGED <<headless, page, places, logs, driver, session, quitCalls,
                   quitRaised, lateOps, exc, i, cards, nav, detEvals,
                   refreshes, served, challenged, obs, site, partials, final,
                   events, urlCall, twin, catCall>>

\* wait_cards_container, lines 114-120, and lines 226-231: the wait for one
\* candidate; after the last timeout the TimeoutException is caught, logged,
\* and the loop is left
LegacyWait ==
    /\ pc = "legacy_wait"
    /\ IF PageNow.containers[sel]
       THEN pc' = "legacy_scroll" /\ sel' = 0 /\ logs' = logs /\ twin' = twin
       ELSE IF sel < Len(candidates)
       THEN pc' = "legacy_wait" /\ sel' = sel + 1 /\ logs' = logs /\ twin' = twin
       ELSE /\ logs' = Append(logs, LogNote("no_container", page))
            /\ twin' = [twin EXCEPT !.legacy.broke = TRUE]
            /\ pc' = "legacy_finally"
            /\ sel' = 0
    /\ BrowserOp
    /\ UNCHANGED <<headless, page, places, driver, session, quitCalls,
                   quitRaised, exc, i, cards, nav, detEvals, refreshes,
                   served, challenged, obs, site, partials, final, events,
                   urlCall, catCall>>

\* line 233: gentle_scroll
LegacyScroll ==
    /\ pc = "legacy_scroll"
    /\ BrowserOp
    /\ pc' = "legacy_collect"
    /\ UNCHANGED <<headless, page, places, logs, driver, session, quitCalls,
                   quitRaised, exc, i, sel, cards, nav, detEvals, refreshes,
                   served, challenged, obs, site, partials, final, events,
                   urlCall, twin, catCall>>

\* lines 235-239: collect the cards, stop on none
LegacyCollect ==
    /\ pc = "legacy_collect"
    /\ LET found == collect_cards(PageNow.matches)
       IN /\ cards' = found
          /\ served' = served + Len(found)
          /\ IF found # <<>>
             THEN logs' = logs /\ twin' = twin /\ pc' = "legacy_append"
             ELSE /\ logs' = Append(logs, LogNote("no_cards", page))
                  /\ twin' = [twin EXCEPT !.legacy.broke = TRUE]
                  /\ pc' = "legacy_finally"
    /\ BrowserOp
    /\ UNCHANGED <<headless, page, places, driver, session, quitCalls,
                   quitRaised, exc, i, sel, nav, detEvals, refreshes,
                   challenged, obs, site, partials, final, events, urlCall,
                   catCall>>

\* lines 241-249: parse the cards, log the counts. The second name lookup
\* of a card whose first lookup found nothing can raise an Exception, which
\* parse_card swallows: the card gets no name and is not kept.
LegacyAppend ==
    /\ pc = "legacy_append"
    /\ LET Parsed(after) ==
               /\ places' = after
               /\ logs' = Append(logs, LogCards(page, Len(cards),
                                                Len(after) - Len(places), Len(after)))
           Raised(cs) ==
               {o \in [1..Len(cs) -> BOOLEAN] :
                    \A x \in 1..Len(cs) : o[x] => ~cs[x].title[1].found}
       IN \E oops \in Raised(cards) :
              Parsed(legacy_append(places, cards, twin.h2First, oops))
    /\ BrowserOp
    /\ pc' = "legacy_save"
    /\ UNCHANGED <<headless, page, driver, session, quitCalls, quitRaised,
                   exc, i, sel, cards, nav, detEvals, refreshes, served,
                   challenged, obs, site, partials, final, events, urlCall,
                   twin, catCall>>

\* line 251: save_partial(places, logs, suffix=f"{page:02d}")
LegacySave ==
    /\ pc = "legacy_save"
    /\ partials' = [partials EXCEPT ![Suffix(page)] = save_partial(@, places, logs)]
    /\ pc' = "legacy_sleep"
    /\ UNCHANGED <<headless, page, places, logs, driver, session, quitCalls,
                   quitRaised, lateOps, exc, i, sel, cards, nav, detEvals,
                   refreshes, served, challenged, obs, site, final, events,
                   urlCall, twin, catCall>>

\* line 253: the pause between pages
LegacySleep ==
    /\ pc = "legacy_sleep"
    /\ pc' = "legacy_loop"
    /\ cards' = <<>>
    /\ UNCHANGED <<headless, page, places, logs, driver, session, quitCalls,
                   quitRaised, lateOps, exc, i, sel, nav, detEvals,
                   refreshes, served, challenged, obs, site, partials, final,
                   events, urlCall, twin, catCall>>

\* A call inside the try block raised what nothing in the loop catches; what
\* the step had already done stays, and the finally block follows.
LegacyFaultLeaves(lg, nv, ps, pt, ch) ==
    /\ logs' = lg
    /\ nav' = nv
    /\ places' = ps
    /\ partials' = pt
    /\ challenged' = ch

LegacyFault ==
    /\ pc \in {"legacy_loop", "legacy_open", "legacy_protect", "legacy_poll",
              "legacy_input", "legacy_wait", "legacy_scroll", "legacy_collect",
              "legacy_append", "legacy_save", "legacy_sleep"}
    /\ \/ LegacyFaultLeaves(logs, nav, places, partials, challenged)
       \* line 205 done, driver.get not reached; driver.get or the sleep raised
       \/ /\ pc = "legacy_open"
          /\ \E got \in BOOLEAN :
               LegacyFaultLeaves(Append(logs, LogLine("opened", page,
                                                      legacy_page_url(page), 0, 0, 0)),
                                 IF got THEN Append(nav, page) ELSE nav,
                                 places, partials, challenged)
       \* line 210 done, the print of line 211 raised
       \/ /\ pc = "legacy_protect"
          /\ is_protect_screen(SourceAt(PageNow, 1))
          /\ LegacyFaultLeaves(Append(logs, LogNote("protect_wait", page)), nav,
                               places, partials, challenged + 1)
       \* line 219 done, the print of line 220 raised
       \/ /\ pc = "legacy_poll"
          /\ i >= LEGACY_POLLS /\ ~headless
          /\ LegacyFaultLeaves(Append(logs, LogNote("manual_prompt", page)), nav,
                               places, partials, challenged)
       \* line 229 done, the print of line 230 raised
       \/ /\ pc = "legacy_wait"
          /\ sel = Len(candidates) /\ ~PageNow.containers[sel]
          /\ LegacyFaultLeaves(Append(logs, LogNote("no_container", page)), nav,
                               places, partials, challenged)
       \* line 237 done, the print of line 238 raised
       \/ /\ pc = "legacy_collect"
          /\ collect_cards(PageNow.matches) = <<>>
          /\ LegacyFaultLeaves(Append(logs, LogNote("no_cards", page)), nav,
                               places, partials, challenged)
       \* the loop of lines 242-245 got through the first k cards
       \/ /\ pc = "legacy_append"
          /\ LET Raised(cs) ==
                     {o \in [1..Len(cs) -> BOOLEAN] :
                          \A x \in 1..Len(cs) : o[x] => ~cs[x].title[1].found}
             IN \E k \in 1..Len(cards) : \E oops \in Raised(SubSeq(cards, 1, k)) :
                    LegacyFaultLeaves(logs, nav,
                                      legacy_append(places, SubSeq(cards, 1, k),
                                                    twin.h2First, oops),
                                      partials, challenged)
       \* line 248 done, the print of line 249 raised
       \/ /\ pc = "legacy_append"
          /\ LET Parsed(after) ==
                     LegacyFaultLeaves(Append(logs, LogCards(page, Len(cards),
                                                             Len(after) - Len(places),
                                                             Len(after))),
                                       nav, after, partials, challenged)
                 Raised(cs) ==
                     {o \in [1..Len(cs) -> BOOLEAN] :
                          \A x \in 1..Len(cs) : o[x] => ~cs[x].title[1].found}
             IN \E oops \in Raised(cards) :
                    Parsed(legacy_append(places, cards, twin.h2First, oops))
       \* line 189: to_csv opened the CSV for writing, which empties it, and
       \* raised after some of its bytes, or none, were written: the file
       \* holds the first n rows whole, not all of them, and may end inside
       \* the header or the next row
       \/ /\ pc = "legacy_save"
          /\ LET Cut(rows) ==
                     \E n \in 0..Len(rows), inside \in BOOLEAN :
                         /\ n < Len(rows) \/ n = 0
                         /\ LegacyFaultLeaves(logs, nav, places,
                                [partials EXCEPT ![Suffix(page)].csv = SubSeq(rows, 1, n),
                                                 ![Suffix(page)].csvCut = inside],
                                challenged)
             IN Cut(legacy_df_from_places(places))
       \* line 189 done, write_text of line 190 could not open the log: the
       \* CSV is the new one, the log file the old one
       \/ /\ pc = "legacy_save"
          /\ LET CsvOnly(old) ==
                     [save_partial(old, places, old.log) EXCEPT !.logCut = old.logCut]
             IN LegacyFaultLeaves(logs, nav, places,
                    [partials EXCEPT ![Suffix(page)] = CsvOnly(@)],
                    challenged)
       \* line 189 done, write_text opened the log for writing, which empties
       \* it, and raised after some of the bytes of "\n".join(logs), or none,
       \* were written: the file holds the first n lines whole, not all of
       \* them, and may end inside the next line; or both files done and the
       \* print raised
       \/ /\ pc = "legacy_save"
          /\ \E n \in 0..Len(logs), inside \in BOOLEAN :
               /\ inside => n < Len(logs)
               /\ LET LogCutAt(old) ==
                          [save_partial(old, places, SubSeq(logs, 1, n)) EXCEPT !.logCut = inside]
                  IN LegacyFaultLeaves(logs, nav, places,
                         [partials EXCEPT ![Suffix(page)] = LogCutAt(@)],
                         challenged)
    /\ exc' = TRUE
    /\ pc' = "legacy_finally"
    /\ i' = 0 /\ sel' = 0 /\ cards' = <<>> /\ detEvals' = 0
    /\ UNCHANGED <<headless, page, driver, session, quitCalls, quitRaised,
                   lateOps, refreshes, served, obs, site, final, events,
                   urlCall, twin, catCall>>

\* lines 256-259: "except Exception: pass" catches an Exception of quit(); a
\* KeyboardInterrupt, SystemExit or GeneratorExit leaves scrape_all_pages()
\* lines 255-261: the finally block, then return places, logs or re-raise
LegacyQuit ==
    /\ pc = "legacy_finally"
    /\ \E raised \in QuitOutcomes :
         /\ quitRaised' = raised
         /\ IF exc \/ raised = "BaseException"
            THEN pc' = "legacy_raised" /\ twin' = twin
            ELSE /\ pc' = "legacy_returned"
                 /\ twin' = [twin EXCEPT
                               !.legacy = [ran |-> TRUE, last |-> page,
                                           broke |-> @.broke,
                                           places |-> places, logs |-> logs]]
    /\ quitCalls' = quitCalls + 1
    /\ session' = "quit"
    /\ UNCHANGED <<headless, page, places, logs, driver, lateOps, exc, i,
                   sel, cards, nav, detEvals, refreshes, served, challenged,
                   obs, site, partials, final, events, urlCall, catCall>>

\* __main__, lines 269-270: the final CSV
LegacySaveCsv ==
    /\ pc = "legacy_returned"
    /\ final' = [final EXCEPT !.csv = legacy_df_from_places(places),
                              !.csvCut = FALSE, !.csvWrites = @ + 1]
    /\ pc' = "legacy_save_log"
    /\ UNCHANGED <<headless, page, places, logs, driver, session, quitCalls,
                   quitRaised, lateOps, exc, i, sel, cards, nav, detEvals,
                   refreshes, served, challenged, obs, site, partials, events,
                   urlCall, twin, catCall>>

\* __main__, line 271: the final log
LegacySaveLog ==
    /\ pc = "legacy_save_log"
    /\ final' = [final EXCEPT !.log = logs, !.logCut = FALSE, !.logWrites = @ + 1]
    /\ pc' = "legacy_done"
    /\ UNCHANGED <<headless, page, places, logs, driver, session, quitCalls,
                   quitRaised, lateOps, exc, i, sel, cards, nav, detEvals,
                   refreshes, served, challenged, obs, site, partials, events,
                   urlCall, twin, catCall>>

\* __main__, lines 269-275 interrupted. to_csv or write_text raised before
\* it opened its file: the file is as it was. It raised after it opened the
\* file for writing, which empties it, after some of its bytes, or none,
\* were written: the file holds the first n rows or lines whole, not all of
\* them, and may end inside the header, the next row or the next line. Or
\* the file was written and what follows raised.
LegacyMainFault ==
    /\ pc \in {"legacy_returned", "legacy_save_log"}
    /\ \/ final' = final
       \/ /\ pc = "legacy_returned"
          /\ LET Cut(rows) ==
                     \E n \in 0..Len(rows), inside \in BOOLEAN :
                         /\ n < Len(rows) \/ n = 0
                         /\ final' = [final EXCEPT !.csv = SubSeq(rows, 1, n),
                                                   !.csvCut = inside]
             IN Cut(legacy_df_from_places(places))
       \/ /\ pc = "legacy_returned"
          /\ final' = [final EXCEPT !.csv = legacy_df_from_places(places), !.csvCut = FALSE,
                                    !.csvWrites = @ + 1]
       \/ /\ pc = "legacy_save_log"
          /\ \E n \in 0..Len(logs), inside \in BOOLEAN :
               /\ n < Len(logs) \/ n = 0
               /\ final' = [final EXCEPT !.log = SubSeq(logs, 1, n),
                                         !.logCut = inside]
       \/ /\ pc = "legacy_save_log"
          /\ final' = [final EXCEPT !.log = logs, !.logCut = FALSE,
                                    !.logWrites = @ + 1]
    /\ pc' = "legacy_raised"
    /\ UNCHANGED <<headless, page, places, logs, driver, session, quitCalls,
                   quitRaised, lateOps, exc, i, sel, cards, nav, detEvals,
                   refreshes, served, challenged, obs, site, partials, events,
                   urlCall, twin, catCall>>

\* ---- then main.py in a process of its own: main(), lines 387-392, makes
\* the ParserConfig and the ZoonScraper. Nothing of the legacy process is
\* left but the files it wrote; the site is visited anew.
NewScraper ==
    /\ pc = "legacy_done"
    /\ pc' = "start"
    /\ page' = 0
    /\ places' = <<>>
    /\ logs' = <<>>
    /\ driver' = "none"
    /\ session' = "none"
    /\ quitCalls' = 0
    /\ quitRaised' = "none"
    /\ lateOps' = 0
    /\ exc' = FALSE
    /\ i' = 0
    /\ sel' = 0
    /\ cards' = <<>>
    /\ nav' = <<>>
    /\ detEvals' = 0
    /\ refreshes' = 0
    /\ served' = 0
    /\ challenged' = 0
    /\ obs' = NoObs
    /\ site' = [k \in 1..TotalPages |-> NotShown]
    /\ events' = <<>>
    /\ UNCHANGED <<headless, partials, final, urlCall, twin, catCall>>

\* The looks and the container waits of the page in progress.
LooksNow == SelectSeq(events, LAMBDA e : e.op = "check")
WaitsNow == SelectSeq(events, LAMBDA e : e.op = "wait")

\* What ZoonScraper has seen of its current page after a step is what the
\* site showed the legacy script: each look at the page source, each
\* container wait, the cards collected.
SameSite ==
    page' >= 1 =>
        /\ \A k \in 1..Len(LooksNow') :
               LooksNow'[k].res = Verdict(SourceAt(PageNow', k))
        /\ \A k \in 1..Len(WaitsNow') :
               WaitsNow'[k].res = IF PageNow'.containers[k] THEN "found" ELSE "timeout"
        /\ site'[page'].collected =>
               site'[page'].cards = _collect_cards(PageNow'.matches)

\* main() and ZoonScraper.run() as in Spec, on the site the legacy script saw
RunOnSameSite == Next /\ SameSite

TwinNext ==
    \/ LegacyStart
    \/ LegacyLoopNext
    \/ LegacyOpen
    \/ LegacyProtect
    \/ LegacyPoll
    \/ LegacyPollsOver
    \/ LegacyInput
    \/ LegacyWait
    \/ LegacyScroll
    \/ LegacyCollect
    \/ LegacyAppend
    \/ LegacySave
    \/ LegacySleep
    \/ LegacyFault
    \/ LegacyQuit
    \/ LegacySaveCsv
    \/ LegacySaveLog
    \/ LegacyMainFault
    \/ NewScraper
    \/ RunOnSameSite

TwinSpec == TwinInit /\ [][TwinNext]_vars

\* ---------------------------------------- _extract_categories on its own
\* Texts of feature links: names with and without separators around them,
\* a name with a separator inside, texts with nothing but separators.
LinkTexts ==
    { <<"A">>, <<" ", "A", "-">>, <<"MIDDOT", "B", " ">>, <<"B">>,
      <<"C", "\n">>, <<"A", "-", "B">>, <<"-", " ">>, << >> }

\* A card of which only the feature links matter.
CardWithLinks(links) ==
    [title |-> <<Missing, Missing, Missing>>, rating |-> Missing, links |-> links]

CatInit ==
    /\ Constructed
    /\ ~headless
    /\ final = NoFinal
    /\ urlCall = NotCalled(CityUrl)
    /\ twin = NoRuns(<<>>, FALSE)
    /\ catCall \in {NotExtracted(links) : links \in SeqsUpTo(LinkTexts, MaxLinks)}

\* self._extract_categories(card), the card unchanged between calls
ExtractCategories ==
    /\ catCall.calls < MaxExtractions
    /\ LET Returned(got) ==
               catCall' = [catCall EXCEPT !.calls = @ + 1,
                                          !.first = IF catCall.calls = 0 THEN got ELSE @,
                                          !.last = got]
       IN Returned(_extract_categories(CardWithLinks(catCall.links)))
    /\ UNCHANGED <<scraperVars, urlCall, twin>>

CatNext == ExtractCategories

CatSpec == CatInit /\ [][CatNext]_vars

\* ------------------------------------------------------------ properties
LastLog == logs[Len(logs)]

\* the loop of run() was left by break or by running out of pages, with no
\* exception out of its body
Returning ==
    /\ pc \in {"finally", "raised", "save_csv", "save_log", "done", "main_raised"}
    /\ ~exc

\* the pages navigated to are 1, 2, ..., k
NavIsUpTo(k) == Len(nav) = k /\ \A j \in 1..k : nav[j] = j

InProtectHandler == pc \in {"protect", "poll", "input", "manual"}

\* A card has a name when some title element of it has text that is not
\* all whitespace.
HasNameText(card) ==
    \E j \in 1..Len(card.title) :
        /\ card.title[j].found
        /\ \E x \in 1..Len(card.title[j].text) : card.title[j].text[x] \notin Whitespace

NamedCount(cs) == Cardinality({x \in 1..Len(cs) : HasNameText(cs[x])})

\* the named cards the site showed on pages 1..k
RECURSIVE NamedThrough(_)
NamedThrough(k) ==
    IF k = 0 THEN 0 ELSE NamedThrough(k - 1) + NamedCount(site[k].cards)

CardsEntries(k) == {x \in 1..Len(logs) : logs[x].kind = "cards" /\ logs[x].page = k}

\* C1: when _handle_protect_screen ends with the page still a challenge
\* screen, every poll was used (all automatic polls when headless, the manual
\* re-checks too when interactive), the failure entry of that page is the last
\* log line, run() has left the loop without an exception, and the page is the
\* last one navigated to.
C1_ChallengeAbortStopsRun ==
    (obs.det = "challenge" /\ ~InProtectHandler) =>
        /\ detEvals = IF headless THEN 1 + ProtectPollAttempts
                      ELSE 1 + ProtectPollAttempts + ProtectManualRetryAttempts
        /\ logs # <<>>
        /\ LastLog = LogNote(IF headless THEN "protect_stop"
                             ELSE "protect_manual_stop", page)
        /\ Returning
        /\ NavIsUpTo(page)

\* C1 witness: an interactive run that gave up on a challenge before the last
\* page and has finished.
C1_Witness ==
    pc = "done" /\ obs.det = "challenge" /\ ~headless /\ page < TotalPages

\* C2: when no container selector resolved, or the card collection came back
\* empty, the stop-reason entry of that page is the last log line, the page
\* added no record and wrote no partial file, the page is the last one
\* navigated to, and run() has left the loop: without an exception, unless
\* the print that follows the stop-reason entry raised one.
C2_StructuralFailureStopsRun ==
    (page >= 1 /\ (obs.container = "missing"
                   \/ (site[page].collected /\ site[page].cards = <<>>))) =>
        /\ logs # <<>>
        /\ LastLog = LogNote(IF obs.container = "missing" THEN "no_container"
                             ELSE "no_cards", page)
        /\ Len(places) = NamedThrough(page - 1)
        /\ CardsEntries(page) = {}
        /\ partials[Suffix(page)].writes = 0
        /\ Returning \/ (exc /\ pc \in {"finally", "raised"})
        /\ NavIsUpTo(page)

\* C2 witness: a finished run that stopped on a missing container on a page
\* after records had been accumulated, with pages left.
C2_Witness ==
    /\ pc = "done" /\ obs.container = "missing"
    /\ places # <<>> /\ page < TotalPages

\* the cards the site showed on pages 1..k, in page order
RECURSIVE ShownThrough(_)
ShownThrough(k) ==
    IF k = 0 THEN <<>> ELSE ShownThrough(k - 1) \o site[k].cards

\* the CSV rows of the named cards shown on pages 1..k, in the order shown
RowsThrough(k) ==
    LET named == SelectSeq(ShownThrough(k), HasNameText)
    IN [x \in 1..Len(named) |-> PlaceRow(_parse_card(named[x]))]

IsPrefix(a, b) == Len(a) <= Len(b) /\ a = SubSeq(b, 1, Len(a))

\* the run has ended on a page whose card collection came back empty
EndedOnNoCards ==
    pc = "done" /\ page >= 1 /\ site[page].collected /\ site[page].cards = <<>>

\* C3 as stated: after an empty collection on page k > 1 the final CSV rows
\* and the final log lines are those of the partial files of page k-1.
C3_Original_FinalEqualsPreviousPartial ==
    (EndedOnNoCards /\ page > 1) =>
        /\ final.csv = partials[Suffix(page - 1)].csv
        /\ final.log = partials[Suffix(page - 1)].log

\* C3 as amended: after an empty collection on page k > 1 the final CSV rows
\* are those of the partial CSV of page k-1, and the final log is the partial
\* log of page k-1 followed by lines of page k only, the last of them the
\* stop reason.
C3_FinalExtendsPreviousPartial ==
    (EndedOnNoCards /\ page > 1) =>
        LET prev == partials[Suffix(page - 1)]
        IN /\ prev.writes = 1
           /\ final.csv = prev.csv
           /\ IsPrefix(prev.log, final.log)
           /\ Len(prev.log) < Len(final.log)
           /\ \A x \in (Len(prev.log) + 1)..Len(final.log) : final.log[x].page = page
           /\ final.log[Len(final.log)] = LogNote("no_cards", page)

\* C3 witness: a finished run with records that found no card on a later page.
C3_Witness == EndedOnNoCards /\ page > 1 /\ places # <<>>

\* C4 as stated: without challenge screens, when pages 1..k-1 yield cards and
\* page k none, the final log is one success line per page 1..k-1 and one
\* stop-reason line for page k; after 2 named cards on page 1 and none on
\* page 2 there are 2 records and 2 log lines.
C4_Original_OneLogLinePerPage ==
    (EndedOnNoCards /\ challenged = 0) =>
        /\ Len(final.log) = page
        /\ \A j \in 1..(page - 1) :
               final.log[j].kind = "cards" /\ final.log[j].page = j
        /\ final.log[page] = LogNote("no_cards", page)
        /\ Len(final.csv) = NamedThrough(page - 1)

\* C4 as amended: in such a run the final log is two lines per page: the
\* opened line and the success line for each page 1..k-1, the opened line
\* and the stop-reason line for page k; after 2 named cards on page 1 and
\* none on page 2 there are 2 records and 4 log lines.
C4_TwoLogLinesPerPage ==
    (EndedOnNoCards /\ challenged = 0) =>
        /\ Len(final.log) = 2 * page
        /\ \A j \in 1..page : final.log[2 * j - 1] = LogOpened(j)
        /\ \A j \in 1..(page - 1) :
               final.log[2 * j] = LogLine("cards", j, <<>>, Len(site[j].cards),
                                          NamedCount(site[j].cards), NamedThrough(j))
        /\ final.log[2 * page] = LogNote("no_cards", page)
        /\ Len(final.csv) = NamedThrough(page - 1)
        /\ (page = 2 /\ Len(site[1].cards) = 2 /\ NamedCount(site[1].cards) = 2) =>
               Len(final.csv) = 2 /\ Len(final.log) = 4

\* C4 witness: the scenario: 2 named cards on page 1, none on page 2, a page
\* left unvisited.
C4_Witness ==
    /\ EndedOnNoCards /\ challenged = 0 /\ page = 2 /\ page < TotalPages
    /\ Len(site[1].cards) = 2 /\ NamedCount(site[1].cards) = 2

\* run() is over after its page loop was entered.
AfterRun == pc \in {"raised", "save_csv", "save_log", "done", "main_raised"}

\* C5: driver.quit() is never called twice; once a run() that entered its
\* page loop is over, by the end of the pages, by an abort or by an exception
\* of whatever a page did, it has been called exactly once and the session
\* is gone; while the loop runs it has not been called and the session is
\* live; no browser call is ever made on a session that is not live. (A
\* run() whose _build_driver raised never enters the loop and never calls
\* quit().)
C5_SessionReleasedExactlyOnce ==
    /\ quitCalls <= 1
    /\ lateOps = 0
    /\ AfterRun => quitCalls = 1 /\ session = "quit" /\ driver = "none"
    /\ (~AfterRun /\ pc \notin {"start", "build_raised"}) =>
           quitCalls = 0 /\ session = "live" /\ driver = "chrome"
    /\ pc = "build_raised" => quitCalls = 0 /\ driver = "none" /\ nav = <<>>

\* C5 witness: an exception left run() after records were accumulated, and
\* the session was released once.
C5_Witness == pc = "raised" /\ exc /\ quitCalls = 1 /\ places # <<>>

\* C6: neither canonical file is written twice; a canonical file is written
\* only after the session was released; a run whose loop ended without an
\* exception goes on until "done", where each canonical file has been written
\* once, the CSV holding the rows of every named card shown, in the order
\* shown, and the log every log line.
C6_ReleaseThenFinalSaveOnce ==
    /\ final.csvWrites <= 1 /\ final.logWrites <= 1
    /\ (final.csvWrites > 0 \/ final.logWrites > 0) =>
           session = "quit" /\ quitCalls = 1
    /\ (pc \in {"finally", "save_csv", "save_log"} /\ ~exc) =>
           ENABLED (Close \/ MainSaveCsv \/ MainSaveLog)
    /\ pc = "done" =>
           /\ final.csvWrites = 1 /\ final.logWrites = 1
           /\ final.csv = RowsThrough(page)
           /\ Len(final.csv) = Len(places)
           /\ final.log = logs

\* C6 witness: a finished run that went through every page and holds at least
\* two records.
C6_Witness ==
    /\ pc = "done" /\ page = TotalPages
    /\ partials[Suffix(TotalPages)].writes = 1 /\ Len(final.csv) >= 2

\* C7: the pages navigated to are 1, 2, ..., m with m <= TotalPages, each
\* once, and every page before the last one navigated to was fully processed:
\* its cards collected, its success line logged, its partial files written.
C7_PagesInOrder ==
    /\ Len(nav) <= TotalPages
    /\ NavIsUpTo(Len(nav))
    /\ \A j \in 1..(Len(nav) - 1) :
           /\ site[j].collected /\ site[j].cards # <<>>
           /\ CardsEntries(j) # {}
           /\ partials[Suffix(j)].writes = 1

\* C7 witness: the run has navigated to the last page.
C7_Witness == Len(nav) = TotalPages /\ pc = "protect"

\* C8: the partial files of a page change only when _save_partial runs for
\* that page, once, after the success line of the page was logged; when it
\* returns, the page being processed, the files hold, in place of whatever
\* they held, the rows of the named cards shown on pages 1..k, in the order
\* shown, and the whole log up to the success line of page k, neither file
\* cut short; _save_partial left by an exception ends the run, and the page
\* is not processed; every page processed has its partial files written,
\* whole.
C8_PartialSaveMonotonic ==
    /\ [][\A k \in 1..TotalPages :
              partials'[Suffix(k)] # partials[Suffix(k)] =>
                  /\ k = page /\ pc = "save"
                  /\ partials[Suffix(k)].writes = 0
                  /\ LastLog.kind = "cards" /\ LastLog.page = k
                  /\ Len(RowsThrough(k)) = Len(places)
                  /\ IF pc' = "sleep"
                     THEN /\ partials'[Suffix(k)].writes = 1
                          /\ partials'[Suffix(k)].csv = RowsThrough(k)
                          /\ partials'[Suffix(k)].log = logs
                          /\ ~partials'[Suffix(k)].csvCut
                          /\ ~partials'[Suffix(k)].logCut
                     ELSE exc' /\ pc' = "finally"]_vars
    /\ [](\A k \in 1..TotalPages :
              /\ partials[Suffix(k)].writes <= 1
              /\ (k < page \/ (k = page /\ pc \in {"sleep", "loop"})) =>
                     /\ partials[Suffix(k)].writes = 1
                     /\ partials[Suffix(k)].csv = RowsThrough(k)
                     /\ ~partials[Suffix(k)].csvCut
                     /\ ~partials[Suffix(k)].logCut
                     /\ IsPrefix(partials[Suffix(k)].log, logs)
                     /\ partials[Suffix(k)].log # <<>>
                     /\ partials[Suffix(k)].log[Len(partials[Suffix(k)].log)].kind = "cards"
                     /\ partials[Suffix(k)].log[Len(partials[Suffix(k)].log)].page = k)

\* C8 witness: the partial files of page 2 were written over files an earlier
\* run had left, and hold more than those of page 1.
C8_Witness ==
    /\ TotalPages >= 3
    /\ partials[Suffix(TotalPages)] = StalePartial
    /\ partials[Suffix(2)].writes = 1
    /\ Len(partials[Suffix(2)].csv) > Len(partials[Suffix(1)].csv)
    /\ Len(partials[Suffix(1)].csv) > 0

\* C9: every accumulated record has a non-empty name; the accumulator changes
\* only when a page's cards are appended; that step adds one record for each
\* card of the page that has a name and none for a card without, and logs as
\* running total the total before the page plus that number; the last success
\* line always reports the size of the accumulator.
C9_NameEmptyFiltering ==
    /\ [](/\ \A x \in 1..Len(places) : places[x].name # <<>>
          /\ (logs # <<>> /\ LastLog.kind = "cards") => LastLog.total = Len(places))
    /\ [][/\ places' # places => pc = "append"
          /\ (pc = "append" /\ pc' = "save") =>
                 LET named == NamedCount(cards)
                 IN /\ cards = site[page].cards
                    /\ IsPrefix(places, places')
                    /\ Len(places') = Len(places) + named
                    /\ logs' = Append(logs, LogLine("cards", page, <<>>, Len(cards),
                                                    named, Len(places) + named))]_vars

\* C9 witness: a page after the first showed a card with a name and a card
\* without, and one record was added.
C9_Witness ==
    /\ pc = "save" /\ page >= 2
    /\ LastLog.kind = "cards" /\ LastLog.cards = 2 /\ LastLog.added = 1
    /\ LastLog.total = Len(places)

MaxDetEvals == 1 + ProtectPollAttempts + ProtectManualRetryAttempts

\* Steps one page can still take from a position of _process_page, and the
\* steps the whole run can still take: a number every step makes smaller.
PageSteps == 14 + ProtectPollAttempts + ProtectManualRetryAttempts

StepsLeftInPage ==
    CASE pc = "open"    -> PageSteps - 1
      [] pc = "protect" -> PageSteps - 2
      [] pc = "poll"    -> 11 + ProtectManualRetryAttempts + (ProtectPollAttempts - i)
      [] pc = "input"   -> 10 + ProtectManualRetryAttempts
      [] pc = "manual"  -> 9 + (ProtectManualRetryAttempts - i)
      [] pc = "wait"    -> 9 - sel
      [] pc = "scroll"  -> 5
      [] pc = "collect" -> 4
      [] pc = "append"  -> 3
      [] pc = "save"    -> 2
      [] pc = "sleep"   -> 1
      [] OTHER          -> 0

StepsLeft ==
    CASE pc \in {"done", "raised", "build_raised", "main_raised"} -> 0
      [] pc = "save_log" -> 1
      [] pc = "save_csv" -> 2
      [] pc = "finally"  -> 3
      [] pc = "start"    -> 5 + TotalPages * PageSteps
      [] OTHER           -> 4 + (TotalPages - page) * PageSteps + StepsLeftInPage

\* C10: every step of a run (a sleep that ends, a wait that returns or times
\* out, a prompt the operator answers) brings its end nearer, so no run goes
\* on for ever, whatever the challenge screen does; a run that entered its
\* loop and has no step left has released the session; there are at most
\* TotalPages navigations, and no
\* call of _handle_protect_screen looks at the page more than
\* 1 + ProtectPollAttempts + ProtectManualRetryAttempts times.
C10_RunTerminates ==
    /\ [][StepsLeft' < StepsLeft]_vars
    /\ [](/\ Len(nav) <= TotalPages
          /\ detEvals <= MaxDetEvals
          /\ page <= TotalPages
          /\ i <= ProtectPollAttempts + ProtectManualRetryAttempts
          /\ sel <= Len(CONTAINER_SELECTORS)
          /\ (StepsLeft = 0 /\ pc # "build_raised") => session = "quit")

\* C10 witness: a challenge screen that never cleared: every automatic poll
\* and every manual re-check was used.
C10_Witness ==
    pc = "manual" /\ i = ProtectManualRetryAttempts /\ detEvals = MaxDetEvals

\* C11: an error (an Exception) raised by driver.quit() is swallowed by
\* close(): the step of the finally block leaves the records and the log as
\* they were, marks the session released and the driver gone, and, unless
\* quit() raised what "except Exception" does not catch (a KeyboardInterrupt,
\* SystemExit or GeneratorExit), goes on to return to main() or to re-raise
\* what the loop raised, whether quit() raised or not; a run ends in "raised"
\* only on a fault of the loop or on such an interrupt, and a run whose
\* quit() raised an Exception still writes the canonical files from the
\* records and the log.
C11_QuitErrorSuppressed ==
    /\ [][pc = "finally" =>
              /\ quitRaised' # "BaseException" =>
                     pc' = (IF exc THEN "raised" ELSE "save_csv")
              /\ places' = places /\ logs' = logs /\ exc' = exc
              /\ driver' = "none" /\ session' = "quit"]_vars
    /\ [](/\ pc = "raised" => exc \/ quitRaised = "BaseException"
          /\ pc \in {"save_csv", "save_log", "done", "main_raised"} =>
                 ~exc /\ quitRaised # "BaseException"
          /\ quitRaised # "none" =>
                 session = "quit" /\ driver = "none" /\ quitCalls = 1
          /\ (quitRaised = "Exception" /\ pc = "done") =>
                 final.log = logs /\ Len(final.csv) = Len(places))

\* C11 witness: quit() raised an Exception after records were accumulated,
\* and the run returned and wrote the canonical files.
C11_Witness ==
    /\ quitRaised = "Exception" /\ pc = "done" /\ ~exc
    /\ places # <<>> /\ final.csvWrites = 1

\* C12: a call of page_url (of ParserConfig, or of the legacy script) with
\* page 1 returns the base URL as it is; with a page k > 1 it returns the base
\* URL without its trailing slashes, followed by "/page-", the decimal digits
\* of k and "/"; no other page number in 1..MaxUrlPage has the same URL.
C12_PageUrl ==
    urlCall.impl # "none" =>
        LET base == urlCall.city_url
            k == urlCall.page
            url == urlCall.url
            tail == <<"/", "page-">> \o Str(k) \o <<"/">>
            stem == SubSeq(url, 1, Len(url) - Len(tail))
        IN /\ k \in 1..MaxUrlPage
           /\ k = 1 => url = base
           /\ k > 1 =>
                  /\ Len(url) >= Len(tail)
                  /\ url = stem \o tail
                  /\ IsPrefix(stem, base)
                  /\ \A x \in (Len(stem) + 1)..Len(base) : base[x] = "/"
                  /\ stem # <<>> => stem[Len(stem)] # "/"
           /\ \A q \in 1..MaxUrlPage :
                  q # k => url # (IF urlCall.impl = "config"
                                 THEN ParserConfig_page_url(base, q)
                                 ELSE legacy_page_url(q))

\* C12 witness: the URL of a two-digit page was computed from a base URL
\* that ends in a slash and has a "page-" segment of its own.
C12_Witness ==
    /\ urlCall.impl = "config" /\ urlCall.page >= 10
    /\ Len(urlCall.city_url) = 3
    /\ urlCall.city_url[2] = "page-" /\ urlCall.city_url[3] = "/"

\* the operator's confirmation: input() has returned
Confirmed == Ev("input", "", "returned")

\* positions in 'events' of the detector evaluations made after the
\* operator's confirmation
ManualChecks ==
    {x \in 1..Len(events) :
        /\ events[x].op = "check"
        /\ \E c \in 1..(x - 1) : events[c] = Confirmed}

\* a driver.refresh() was issued before position x, with no detector
\* evaluation and no confirmation between it and x
ReloadedJustBefore(x) ==
    \E r \in 1..(x - 1) :
        /\ events[r].op = "refresh"
        /\ \A y \in (r + 1)..(x - 1) : events[y].op \notin {"check", "input"}

\* the first detector evaluation after the confirmation
FirstManualCheck(x) ==
    x \in ManualChecks /\ \A y \in ManualChecks : x <= y

\* C13 as stated: after the operator's confirmation every detector evaluation
\* is preceded by a driver.refresh() issued since the previous evaluation, or
\* since the confirmation for the first one.
C13_Original_ReloadBeforeEachRecheck ==
    \A x \in ManualChecks : ReloadedJustBefore(x)

\* C13 as amended: after the operator's confirmation each detector evaluation
\* comes right after a delay; the first one is made on the page as the
\* operator left it, no driver.refresh() having been issued for this page;
\* every later one is preceded by the driver.refresh() issued after the
\* evaluation before it, which had seen the challenge.
C13_ReloadAfterFailedRecheck ==
    \A x \in ManualChecks :
        /\ events[x - 1] = Ev("sleep", "protect_manual_retry_delay", "")
        /\ FirstManualCheck(x) =>
               /\ events[x - 2] = Confirmed
               /\ \A y \in 1..x : events[y].op # "refresh"
        /\ ~FirstManualCheck(x) =>
               /\ ReloadedJustBefore(x)
               /\ events[x - 2] = Ev("refresh", "", "")
               /\ events[x - 3] = Ev("check", "", "challenge")

\* C13 witness: the page cleared at the second manual re-check, after one
\* reload.
C13_Witness ==
    /\ pc = "wait" /\ Cardinality(ManualChecks) = 2
    /\ events[Len(events)] = Ev("check", "", "clear")
    /\ Cardinality({x \in 1..Len(events) : events[x].op = "refresh"}) = 1

\* positions in 'events' of the automatic polls: the detector evaluations
\* after the first one of the page and before any prompt
PollChecks ==
    {x \in 1..Len(events) :
        /\ events[x].op = "check"
        /\ \E c \in 1..(x - 1) : events[c].op = "check"
        /\ \A c \in 1..(x - 1) : events[c].op # "input"}

\* positions in 'events' at which the detector saw a clear page
ClearChecks == {x \in 1..Len(events) : events[x] = Ev("check", "", "clear")}

HandlerOps == {"check", "input", "refresh"}

\* C14: the automatic polls of a page are at most ProtectPollAttempts, are
\* made only after the first look saw a challenge, and each comes right after
\* a poll delay; a detector evaluation that sees a clear page is the last
\* thing _handle_protect_screen does: only container waits follow it, and
\* the page is at the container wait or beyond; the poll that sees the clear
\* page goes to the wait for the first container selector without a log line;
\* outside _handle_protect_screen nothing evaluates the detector, prompts or
\* reloads.
C14_PollingBoundedExitOnClear ==
    /\ [](/\ Cardinality(PollChecks) <= ProtectPollAttempts
          /\ \A x \in PollChecks :
                 /\ events[x - 1] = Ev("sleep", "protect_poll_delay", "")
                 /\ \A c \in 1..(x - 1) :
                        events[c].op = "check" => events[c].res = "challenge"
          /\ \A x \in ClearChecks :
                 /\ \A y \in (x + 1)..Len(events) : events[y].op = "wait"
                 /\ pc \notin {"open", "protect", "poll", "input", "manual"}
                 /\ obs.det = "clear")
    /\ [][/\ (pc = "poll" /\ obs'.det = "clear") =>
                 /\ pc' = "wait" /\ sel' = 1 /\ logs' = logs
                 /\ events' = events \o <<Ev("sleep", "protect_poll_delay", ""),
                                          Ev("check", "", "clear")>>
          /\ ~InProtectHandler =>
                 /\ detEvals' <= detEvals /\ refreshes' <= refreshes
                 /\ \A x \in (Len(events) + 1)..Len(events') :
                        events'[x].op \notin HandlerOps
                 /\ (logs' # logs /\ logs' # <<>>) =>
                        logs'[Len(logs')].kind \notin
                            {"protect_wait", "manual_prompt"}]_vars

\* C14 witness: the page cleared at the last automatic poll and is at the
\* container wait.
C14_Witness ==
    /\ pc = "wait" /\ sel = 1
    /\ Cardinality(PollChecks) = ProtectPollAttempts
    /\ events[Len(events)] = Ev("check", "", "clear")
    /\ \A x \in 1..Len(events) : events[x].op \notin {"input", "refresh"}

\* positions in 'events' at which input() was called
Prompts == {x \in 1..Len(events) : events[x] = Ev("input", "", "waiting")}

\* the log lines that announce the prompt of page k
PromptLines(k) ==
    {x \in 1..Len(logs) : logs[x] = LogNote("manual_prompt", k)}

\* C15: input() is called at most once per page, only in an interactive run
\* and only after the first look and every one of the ProtectPollAttempts
\* polls saw the challenge; a headless run never calls input() and never
\* waits for the operator; a page whose first look or whose poll saw a clear
\* page has no prompt; the prompt line is logged only at that point, and
\* input() follows unless the print of the prompt raised.
C15_PromptOnlyInteractiveAfterPolls ==
    /\ [](/\ Cardinality(Prompts) <= 1
          /\ \A k \in 1..TotalPages : Cardinality(PromptLines(k)) <= 1
          /\ \A x \in Prompts :
                 /\ ~headless
                 /\ x = 4 + 2 * ProtectPollAttempts
                 /\ Cardinality({c \in 1..(x - 1) :
                                    events[c] = Ev("check", "", "challenge")})
                        = 1 + ProtectPollAttempts
                 /\ \A c \in 1..(x - 1) : events[c].op \in {"get", "sleep", "check"}
                 /\ PromptLines(page) # {}
          /\ headless =>
                 /\ pc \notin {"input", "manual"}
                 /\ \A x \in 1..Len(events) : events[x].op # "input"
                 /\ \A k \in 1..TotalPages : PromptLines(k) = {}
          /\ pc = "input" => Prompts = {Len(events)}
          /\ \A x \in ClearChecks :
                 x <= 3 + 2 * ProtectPollAttempts => Prompts = {})
    /\ [][(Len(logs') > Len(logs) /\ logs'[Len(logs')].kind = "manual_prompt") =>
              /\ pc = "poll" /\ i = ProtectPollAttempts /\ ~headless
              /\ obs.det = "challenge" /\ PromptLines(page) = {}
              /\ pc' = "input" \/ (exc' /\ pc' = "finally")]_vars

\* C15 witness: an interactive run waits for the operator on a page after the
\* first, every poll having seen the challenge.
C15_Witness ==
    /\ pc = "input" /\ ~headless /\ page >= 2
    /\ Prompts # {} /\ detEvals = 1 + ProtectPollAttempts

\* The place of a position of _process_page in the pipeline of a page:
\* 1 navigate and initial delay, 2 challenge detection and recovery,
\* 3 container wait, 4 scroll, 5 card collection, 6 extraction and log
\* entry, 7 partial save, 8 delay between pages; 0 outside _process_page.
Stage(at) ==
    CASE at = "open" -> 1
      [] at \in {"protect", "poll", "input", "manual"} -> 2
      [] at = "wait" -> 3
      [] at = "scroll" -> 4
      [] at = "collect" -> 5
      [] at = "append" -> 6
      [] at = "save" -> 7
      [] at = "sleep" -> 8
      [] OTHER -> 0

\* C16: a page enters the pipeline at its first stage, from the loop head
\* only; a step inside a page stays in its stage (a further poll, re-check or
\* selector) or moves to the very next one, and moves on only when its stage
\* succeeded: to the container wait on a clear page, to the scroll on a found
\* container, to the extraction on a non-empty card list; the detector is
\* first evaluated after the navigation and the initial delay; the page is
\* scrolled, and its cards collected and saved, only when it is clear and
\* its container was found; the partial files of the page are written when
\* the delay between pages starts, after its success line was logged; the
\* page number changes only at the loop head.
C16_PipelineOrder ==
    /\ [][/\ Stage(pc') = 1 => pc = "loop"
          /\ (Stage(pc) > 0 /\ Stage(pc') > 0) =>
                 /\ Stage(pc') \in {Stage(pc), Stage(pc) + 1}
                 /\ Stage(pc') = Stage(pc) => Stage(pc) \in {2, 3}
          /\ (Stage(pc) = 8 /\ pc' # "finally") => pc' = "loop"
          /\ (Stage(pc) = 2 /\ Stage(pc') = 3) => obs'.det = "clear"
          /\ (Stage(pc) = 3 /\ Stage(pc') = 4) => obs'.container = "found"
          /\ (Stage(pc) = 5 /\ Stage(pc') = 6) =>
                 cards' # <<>> /\ site'[page].cards = cards'
          /\ (Stage(pc) = 7 /\ Stage(pc') = 8) =>
                 partials'[Suffix(page)].writes = 1
          /\ page' # page => pc = "loop" /\ pc' = "open"]_vars
    /\ [](/\ pc = "protect" =>
                 events = <<Ev("get", "", ""), Ev("sleep", "initial_sleep", "")>>
          /\ Stage(pc) >= 2 => nav # <<>> /\ nav[Len(nav)] = page
          /\ Stage(pc) >= 3 => obs.det = "clear"
          /\ Stage(pc) >= 4 => obs.container = "found"
          /\ Stage(pc) >= 6 => site[page].collected /\ site[page].cards # <<>>
          /\ (page >= 1 /\ site[page].collected) => Stage(pc) \notin 1..5
          /\ Stage(pc) >= 7 => LastLog.kind = "cards" /\ LastLog.page = page
          /\ Stage(pc) \in 1..7 => partials[Suffix(page)].writes = 0
          /\ Stage(pc) = 8 => partials[Suffix(page)].writes = 1)

\* C16 witness: the last page, which opened on a challenge screen, has gone
\* through the whole pipeline and is at the delay between pages.
C16_Witness ==
    /\ pc = "sleep" /\ page = TotalPages /\ challenged >= 1
    /\ CardsEntries(page - 1) # {} /\ PromptLines(page) # {}

IsWait(e) == e.op = "wait"

\* the container waits of the current page, in the order made
Waits == SelectSeq(events, IsWait)

\* C17: the container waits of a page are for ul.js-results-group,
\* div.catalog-list and div.results-container, in that order, each at most
\* once; every wait but the last one made timed out, so nothing is waited for
\* after a selector resolved; a resolved selector takes the page to the
\* scroll; a timeout on the first or second selector takes the wait to the
\* next one, without a log line; the page is given up for a missing
\* container exactly when all three waits timed out, and then the
\* container-not-found line of the page is the last log line and run() has
\* left the loop; that line is logged only by the step of the third wait,
\* the first two having timed out, and an exception follows it only when
\* the print after it raised.
C17_ContainerWaitOrder ==
    /\ [](/\ Len(Waits) <= Len(CONTAINER_SELECTORS)
          /\ \A j \in 1..Len(Waits) : Waits[j].arg = CONTAINER_SELECTORS[j]
          /\ \A j \in 1..(Len(Waits) - 1) : Waits[j].res = "timeout"
          /\ pc = "wait" =>
                 /\ sel = Len(Waits) + 1 /\ sel <= Len(CONTAINER_SELECTORS)
                 /\ obs.container = "none"
          /\ (Waits # <<>> /\ Waits[Len(Waits)].res = "found") =>
                 pc = "scroll" /\ obs.container = "found"
          /\ obs.container = "missing" <=>
                 /\ Len(Waits) = Len(CONTAINER_SELECTORS)
                 /\ Waits[Len(Waits)].res = "timeout"
          /\ \A x \in 1..Len(logs) :
                 logs[x].kind = "no_container" =>
                     /\ x = Len(logs) /\ logs[x].page = page
                     /\ \/ obs.container = "missing" /\ Returning
                        \/ exc /\ pc \in {"finally", "raised"})
    /\ [][/\ (pc = "wait" /\ pc' = "wait") =>
                 /\ sel' = sel + 1 /\ logs' = logs
                 /\ events' = Append(events, Ev("wait", CONTAINER_SELECTORS[sel],
                                                "timeout"))
          /\ (Len(logs') > Len(logs) /\ logs'[Len(logs')].kind = "no_container") =>
                 /\ pc = "wait" /\ pc' = "finally"
                 /\ sel = Len(CONTAINER_SELECTORS) /\ Len(Waits) = sel - 1
                 /\ \A j \in 1..Len(Waits) : Waits[j].res = "timeout"]_vars

\* C17 witness: the first two selectors timed out and the third resolved.
C17_Witness ==
    /\ pc = "scroll" /\ Len(Waits) = 3
    /\ Waits[1].res = "timeout" /\ Waits[2].res = "timeout"
    /\ Waits[3] = Ev("wait", "div.results-container", "found")

\* this run wrote the partial files of page k
Written(k) == partials[Suffix(k)].writes > 0

\* page k showed its cards: it was clear, its container was found and its
\* card list was not empty
Yielded(k) == site[k].collected /\ site[k].cards # <<>>

\* _process_page(k) is over and no exception cut it short
Processed(k) ==
    k < page \/ (k = page /\ pc \notin {"collect", "append", "save"} /\ ~exc)

StopKinds == {"protect_stop", "protect_manual_stop", "no_container", "no_cards"}

\* C18: the partial files of page k are written by this run only when the
\* page was clear, had its container found and yielded at least one card,
\* after its success line was logged, and once; every such page whose
\* processing is over, no exception having cut it short, has them written;
\* the page on which the run stopped (challenge not passed, container
\* missing, no cards) has none written; the pages whose partial files are
\* written are 1..m, m being the current page when it has been saved and the
\* page before it otherwise.
C18_PartialFilesIffPageSucceeded ==
    /\ \A k \in 1..TotalPages :
           /\ Written(k) =>
                  /\ k <= page /\ Yielded(k) /\ CardsEntries(k) # {}
                  /\ partials[Suffix(k)].writes = 1
                  /\ (k = page /\ ~exc) =>
                         obs.det = "clear" /\ obs.container = "found"
           /\ (Yielded(k) /\ Processed(k)) => Written(k)
    /\ (logs # <<>> /\ LastLog.kind \in StopKinds) =>
           /\ LastLog.page = page /\ ~Written(page) /\ ~Yielded(page)
           /\ \A k \in 1..(page - 1) : Written(k)
    /\ {k \in 1..TotalPages : Written(k)} =
           1..(IF page >= 1 /\ Written(page) THEN page ELSE page - 1)

\* C18 witness: the run stopped on the last page for a missing container; the
\* partial files of every page before it were written, and the files an
\* earlier run left for the last page are as they were.
C18_Witness ==
    /\ pc = "done" /\ page = TotalPages /\ LastLog.kind = "no_container"
    /\ \A k \in 1..(TotalPages - 1) : Written(k)
    /\ partials[Suffix(TotalPages)] = StalePartial

\* the card has no rating: no rating element, or no digit in its text
LacksRating(card) ==
    \/ ~card.rating.found
    \/ \A x \in 1..Len(card.rating.text) : card.rating.text[x] \notin Digits

\* the card has no category: every feature link is made of separators only
LacksCategories(card) ==
    \A l \in 1..Len(card.links) :
        \A x \in 1..Len(card.links[l]) : card.links[l][x] \in SeparatorChars

\* the page showed cards, none of them with a name
OnlyNameless(k) == Yielded(k) /\ NamedCount(site[k].cards) = 0

\* C19: when the cards of a page are appended, each card with a name gets
\* its record, in card order, whatever else it lacks: a card without rating
\* gets a record with no rating and an empty Rating field, a card without
\* categories a record with no category and an empty Categories field; a
\* page whose cards all lack a name adds no record, logs its success line
\* with 0 added and goes on to the partial save; once processed such a page
\* has its partial files written, and the delay between pages is followed by
\* the loop head, which opens the next page if there is one.
C19_SoftFailuresContinue ==
    /\ [][/\ (pc = "append" /\ pc' = "save") =>
                 LET named == SelectSeq(cards, HasNameText)
                 IN /\ Len(places') = Len(places) + Len(named)
                    /\ \A j \in 1..Len(named) :
                           LET rec == places'[Len(places) + j]
                           IN /\ rec.name # <<>>
                              /\ LacksRating(named[j]) =>
                                     /\ rec.rating = NoRating
                                     /\ PlaceRow(rec).Rating = <<>>
                              /\ ~LacksRating(named[j]) => rec.rating # NoRating
                              /\ LacksCategories(named[j]) =>
                                     /\ rec.categories = <<>>
                                     /\ PlaceRow(rec).Categories = <<>>
                              /\ ~LacksCategories(named[j]) => rec.categories # <<>>
                    /\ named = <<>> =>
                           /\ places' = places
                           /\ logs' = Append(logs, LogLine("cards", page, <<>>,
                                                           Len(cards), 0, Len(places)))
          /\ (pc = "sleep" /\ ~exc') => pc' = "loop"
          /\ (pc = "loop" /\ page < TotalPages /\ ~exc') =>
                 pc' = "open" /\ page' = page + 1
          ]_vars
    /\ [](\A k \in 1..TotalPages :
              (OnlyNameless(k) /\ Processed(k)) =>
                  /\ Written(k)
                  /\ \E x \in CardsEntries(k) : logs[x].added = 0
                  /\ \A x \in 1..Len(logs) :
                         logs[x].page = k => logs[x].kind \notin StopKinds)

\* C19 witness: the first page showed only cards without a name; the run has
\* gone on, and on the second page a card with a name but neither rating nor
\* category was accumulated.
C19_Witness ==
    /\ page = 2 /\ pc = "save" /\ OnlyNameless(1) /\ Written(1)
    /\ Len(places) = 1
    /\ places[1].rating = NoRating /\ places[1].categories = <<>>

\* C20: in every step of a run the records before the step are the first
\* records after it, in the same order and unchanged, and likewise the log
\* lines; a step that gives the page up adds one log line and no record;
\* the release of the session and the writes of the partial and the
\* canonical files leave both lists as they are.
C20_AppendOnly ==
    [][/\ IsPrefix(places, places')
       /\ IsPrefix(logs, logs')
       /\ (Stage(pc) > 0 /\ pc' = "finally" /\ ~exc') =>
              places' = places /\ Len(logs') = Len(logs) + 1
       /\ pc \in {"save", "finally", "save_csv", "save_log"} =>
              places' = places /\ logs' = logs]_vars

\* C20 witness: a run that accumulated records over two pages, gave up on
\* the next page and wrote the canonical files.
C20_Witness ==
    /\ pc = "done" /\ page = 3 /\ LastLog.kind \in StopKinds
    /\ Len(places) >= 2 /\ Len(logs) >= 6
    /\ final.logWrites = 1

\* ZoonScraper.run() has returned its records and its log
RunReturned == pc \in {"save_csv", "save_log", "done", "main_raised"}

\* the loop of run() was left by a break: a stop line is the last log line
RunBroke ==
    logs # <<>> /\ logs[Len(logs)].kind \in
        {"protect_stop", "protect_manual_stop", "no_container", "no_cards"}

\* C21 as stated: on the same site and in the same mode, scrape_all_pages()
\* and ZoonScraper.run() end on the same page, both by a break or both by
\* running out of pages, and return the same records; whenever run() gave a
\* page up for a challenge that outlasted the polls, scrape_all_pages() gave
\* the same page up; every card shown gets the same name from parse_card,
\* its lookups raising nothing but NoSuchElementException, and from
\* _extract_name.
C21_LegacyEqualsConfig ==
    (twin.legacy.ran /\ RunReturned) =>
        /\ twin.legacy.last = page
        /\ twin.legacy.broke = RunBroke
        /\ twin.legacy.places = places
        /\ \A k \in 1..Len(twin.script) :
               \A x \in 1..2 : \A y \in 1..Len(twin.script[k].matches[x]) :
                   legacy_name(twin.script[k].matches[x][y], twin.h2First, FALSE)
                       = _extract_name(twin.script[k].matches[x][y])

\* t is s without the separator characters at its two ends
IsTrimOf(t, s) ==
    \E a \in 1..(Len(s) + 1) : \E b \in 0..Len(s) :
        /\ t = SubSeq(s, a, b)
        /\ \A x \in 1..(a - 1) : s[x] \in SeparatorChars
        /\ \A x \in (b + 1)..Len(s) : s[x] \in SeparatorChars
        /\ t # <<>> => t[1] \notin SeparatorChars /\ t[Len(t)] \notin SeparatorChars

\* the link whose trimmed text is t for the first time
FirstLinkOf(t, links) ==
    CHOOSE x \in 1..Len(links) :
        /\ IsTrimOf(t, links[x])
        /\ \A y \in 1..(x - 1) : ~IsTrimOf(t, links[y])

\* C22: the categories extracted from a card hold no empty text and no text
\* twice; each is the text of a link without the separator characters at its
\* ends, separators inside it kept; they stand in the order in which their
\* texts first occur among the links; every link whose trimmed text is not
\* empty has it in the list; for the links A, B, A, C with separators around
\* them the list is A, B, C; a second extraction from the same card gives
\* the same list.
C22_CategoriesTrimmedUniqueInOrder ==
    catCall.calls > 0 =>
        LET links == catCall.links
            cats == catCall.first
        IN /\ \A j \in 1..Len(cats) :
                  /\ cats[j] # <<>>
                  /\ \E x \in 1..Len(links) : IsTrimOf(cats[j], links[x])
                  /\ \A k \in 1..Len(cats) : cats[k] = cats[j] => k = j
           /\ \A j \in 1..(Len(cats) - 1) :
                  FirstLinkOf(cats[j], links) < FirstLinkOf(cats[j + 1], links)
           /\ \A x \in 1..Len(links) :
                  (\E c \in 1..Len(links[x]) : links[x][c] \notin SeparatorChars) =>
                      \E j \in 1..Len(cats) : IsTrimOf(cats[j], links[x])
           /\ links = << <<" ", "A", "-">>, <<"MIDDOT", "B", " ">>,
                         <<"A">>, <<"C", "\n">> >> =>
                  cats = << <<"A">>, <<"B">>, <<"C">> >>
           /\ catCall.last = cats

\* C22 witness: the categories of a card with the links A, B, A, C, with
\* separators around them, were extracted twice.
C22_Witness ==
    /\ catCall.calls = 2
    /\ catCall.links = << <<" ", "A", "-">>, <<"MIDDOT", "B", " ">>,
                          <<"A">>, <<"C", "\n">> >>
    /\ catCall.last = << <<"A">>, <<"B">>, <<"C">> >>

\* positions in 'events' of the calls of driver.refresh()
Reloads == {x \in 1..Len(events) : events[x].op = "refresh"}

\* positions in 'events' of the manual re-checks that saw the challenge
FailedRechecks == {x \in ManualChecks : events[x].res = "challenge"}

\* positions of _process_page and run() that a page given up by
\* _handle_protect_screen can be at
GivenUp == {"manual", "finally", "raised", "save_csv", "save_log", "done", "main_raised"}

\* C23: the page is reloaded once for every manual re-check that saw the
\* challenge, right after it, and at no other time: not after a re-check
\* that saw a clear page, not during the automatic polls; there are at most
\* ProtectManualRetryAttempts re-checks; when all of them saw the challenge
\* the last thing done on the page is the reload that followed the last one,
\* the detector is not evaluated on the reloaded page, the last verdict stays
\* "challenge", no further re-check can be made, and the page is given up
\* with the line of the failed manual confirmation: it never reaches the
\* container wait and the loop opens no further page.
C23_ReloadsEqualFailedRechecks ==
    /\ Cardinality(Reloads) = Cardinality(FailedRechecks)
    /\ \A r \in Reloads : (r - 1) \in FailedRechecks
    /\ \A x \in FailedRechecks :
           x < Len(events) /\ events[x + 1] = Ev("refresh", "", "")
    /\ \A x \in Reloads : \E c \in 1..(x - 1) : events[c] = Confirmed
    /\ pc \in {"protect", "poll", "input"} => Reloads = {} /\ refreshes = 0
    /\ Cardinality(ManualChecks) <= ProtectManualRetryAttempts
    /\ pc = "manual" =>
           /\ refreshes = Cardinality(Reloads)
           /\ i = Cardinality(FailedRechecks)
    /\ Cardinality(FailedRechecks) = ProtectManualRetryAttempts =>
           /\ events[Len(events)] = Ev("refresh", "", "")
           /\ obs.det = "challenge"
           /\ pc \in GivenUp
           /\ pc = "manual" => i >= ProtectManualRetryAttempts
           /\ pc # "manual" =>
                  /\ logs[Len(logs)] = LogNote("protect_manual_stop", page)
                  /\ nav[Len(nav)] = page
                  /\ ~site[page].collected

\* C23 witness: every manual re-check saw the challenge, each was followed
\* by a reload, and the page was given up after the last reload.
C23_Witness ==
    /\ pc = "finally" /\ ~exc
    /\ Cardinality(FailedRechecks) = ProtectManualRetryAttempts
    /\ Cardinality(Reloads) = ProtectManualRetryAttempts
    /\ events[Len(events)] = Ev("refresh", "", "")
    /\ logs[Len(logs)] = LogNote("protect_manual_stop", page)

====
